---- MODULE Spec2Model ----
(***************************************************************************)
(* A model of the dream-theme matcher, the pattern aggregators and the     *)
(* sleep/performance correlation of the Dream_Analysis repository.         *)
(*                                                                         *)
(* Python strings are sequences of one-character strings, so that          *)
(* lower(), split(), strip() and the regular expression r'\bKEYWORD\b'     *)
(* are computed character by character as the interpreter computes them.   *)
(* The two classes that are both called DreamThemeAnalyzer are told apart  *)
(* by a prefix: DA_ for dream_analyzer.py (used by the command line) and   *)
(* EDA_ for enhanced_dream_analysis.py (used by the reports).              *)
(***************************************************************************)
EXTENDS Integers, Sequences, FiniteSets, TLC

\* ------------------------------------------------------------------------
\* Bounds of the model
\* ------------------------------------------------------------------------

\* A dream text given to the matcher is made of at most MaxTokens tokens.
MaxTokens == 3

\* The in-memory sleep collection holds at most MaxEntries entries.
MaxEntries == 3

\* The collection of the many-nights specification holds at most MaxNights.
MaxNights == 6

\* A list given to the statistics helpers holds at most MaxValues values.
MaxValues == 4

\* An entry is typed in while the two collections together hold fewer than
\* MaxStored entries.
MaxStored == 2

\* ------------------------------------------------------------------------
\* Characters and strings
\* ------------------------------------------------------------------------

\* Python's None, a value different from every string of characters.
None == << "<None>" >>

LowerLetters ==
    {"a","b","c","d","e","f","g","h","i","j","k","l","m",
     "n","o","p","q","r","s","t","u","v","w","x","y","z"}

UpperLetters ==
    {"A","B","C","D","E","F","G","H","I","J","K","L","M",
     "N","O","P","Q","R","S","T","U","V","W","X","Y","Z"}

Digits == {"0","1","2","3","4","5","6","7","8","9"}

Whitespace == {" ", "\t", "\n"}

\* str.lower() on one character.
LowerChar(c) ==
    CASE c = "A" -> "a" [] c = "B" -> "b" [] c = "C" -> "c" [] c = "D" -> "d"
      [] c = "E" -> "e" [] c = "F" -> "f" [] c = "G" -> "g" [] c = "H" -> "h"
      [] c = "I" -> "i" [] c = "J" -> "j" [] c = "K" -> "k" [] c = "L" -> "l"
      [] c = "M" -> "m" [] c = "N" -> "n" [] c = "O" -> "o" [] c = "P" -> "p"
      [] c = "Q" -> "q" [] c = "R" -> "r" [] c = "S" -> "s" [] c = "T" -> "t"
      [] c = "U" -> "u" [] c = "V" -> "v" [] c = "W" -> "w" [] c = "X" -> "x"
      [] c = "Y" -> "y" [] c = "Z" -> "z" [] OTHER -> c

\* str.lower()
lower(s) == [i \in 1..Len(s) |-> LowerChar(s[i])]

\* The regular expression class \w.
IsWordChar(c) == c \in LowerLetters \cup UpperLetters \cup Digits \cup {"_"}

\* len(s.split()): the number of maximal runs of non-whitespace characters.
split_len(s) ==
    Cardinality({i \in 1..Len(s) :
                    /\ s[i] \notin Whitespace
                    /\ (i = 1 \/ s[i-1] \in Whitespace)})

\* str.strip(): drop the leading and the trailing whitespace.
strip(s) ==
    LET keep == {i \in 1..Len(s) : s[i] \notin Whitespace}
    IN  IF keep = {} THEN <<>>
        ELSE LET lo == CHOOSE i \in keep : \A j \in keep : i <= j
                 hi == CHOOSE i \in keep : \A j \in keep : j <= i
             IN  SubSeq(s, lo, hi)

\* ------------------------------------------------------------------------
\* The regular expression r'\b' + re.escape(keyword) + r'\b'
\* ------------------------------------------------------------------------

\* Is there a word character at index p of text (none outside the text)?
WordAt(text, p) == p >= 1 /\ p <= Len(text) /\ IsWordChar(text[p])

\* A matcher without the \b anchors.
WordBoundary_Unanchored(text, p) == TRUE

\* \b just before index p: exactly one of the two neighbours is a word
\* character.
WordBoundary(text, p) == WordAt(text, p - 1) # WordAt(text, p)

\* The escaped keyword matches literally at index p.
LiteralAt(keyword, text, p) ==
    /\ text[p] = keyword[1]
    /\ SubSeq(text, p, p + Len(keyword) - 1) = keyword

\* The whole pattern matches at index p.
PatternAt(keyword, text, p) ==
    /\ LiteralAt(keyword, text, p)
    /\ WordBoundary(text, p)
    /\ WordBoundary(text, p + Len(keyword))

\* len(re.findall(pattern, text)): the scan finds the leftmost match at or
\* after p, counts it and resumes behind it (matches do not overlap).
RECURSIVE findall_from(_, _, _)
findall_from(keyword, text, p) ==
    LET hits == {q \in p..(Len(text) - Len(keyword) + 1) :
                    PatternAt(keyword, text, q)}
    IN  IF hits = {} THEN 0
        ELSE LET q == CHOOSE h \in hits : \A g \in hits : h <= g
             IN  1 + findall_from(keyword, text, q + Len(keyword))

findall(keyword, text) == findall_from(keyword, text, 1)

\* dream_analyzer.DreamThemeAnalyzer.dream_themes: theme name and keyword list,
\* in the dict's insertion order (interpretation and tips carry no behaviour).
DA_dream_themes ==
    <<
       [theme |-> "Flying", keywords |->
         << <<"f","l","y">>,
            <<"f","l","y","i","n","g">>,
            <<"s","o","a","r">>,
            <<"w","i","n","g","s">>,
            <<"a","i","r">>,
            <<"f","l","o","a","t","i","n","g">>,
            <<"l","e","v","i","t","a","t","e">>,
            <<"h","o","v","e","r">> >>],
       [theme |-> "Falling", keywords |->
         << <<"f","a","l","l">>,
            <<"f","a","l","l","i","n","g">>,
            <<"d","r","o","p">>,
            <<"t","u","m","b","l","e">>,
            <<"p","l","u","n","g","e">>,
            <<"c","r","a","s","h">>,
            <<"c","l","i","f","f">> >>],
       [theme |-> "Chase", keywords |->
         << <<"c","h","a","s","e">>,
            <<"c","h","a","s","i","n","g">>,
            <<"p","u","r","s","u","e">>,
            <<"r","u","n">>,
            <<"r","u","n","n","i","n","g">>,
            <<"e","s","c","a","p","e">>,
            <<"h","u","n","t">>,
            <<"f","o","l","l","o","w">> >>],
       [theme |-> "Water", keywords |->
         << <<"w","a","t","e","r">>,
            <<"o","c","e","a","n">>,
            <<"s","e","a">>,
            <<"r","i","v","e","r">>,
            <<"l","a","k","e">>,
            <<"s","w","i","m","m","i","n","g">>,
            <<"d","r","o","w","n","i","n","g">>,
            <<"w","a","v","e","s">>,
            <<"f","l","o","o","d">> >>],
       [theme |-> "Animals", keywords |->
         << <<"d","o","g">>,
            <<"c","a","t">>,
            <<"h","o","r","s","e">>,
            <<"b","i","r","d">>,
            <<"s","n","a","k","e">>,
            <<"l","i","o","n">>,
            <<"t","i","g","e","r">>,
            <<"b","e","a","r">>,
            <<"w","o","l","f">>,
            <<"a","n","i","m","a","l">> >>],
       [theme |-> "Death", keywords |->
         << <<"d","e","a","t","h">>,
            <<"d","y","i","n","g">>,
            <<"d","e","a","d">>,
            <<"f","u","n","e","r","a","l">>,
            <<"g","r","a","v","e">>,
            <<"c","e","m","e","t","e","r","y">>,
            <<"c","o","r","p","s","e">> >>],
       [theme |-> "School/Exam", keywords |->
         << <<"s","c","h","o","o","l">>,
            <<"e","x","a","m">>,
            <<"t","e","s","t">>,
            <<"c","l","a","s","s","r","o","o","m">>,
            <<"t","e","a","c","h","e","r">>,
            <<"s","t","u","d","e","n","t">>,
            <<"h","o","m","e","w","o","r","k">>,
            <<"s","t","u","d","y">> >>],
       [theme |-> "House/Home", keywords |->
         << <<"h","o","u","s","e">>,
            <<"h","o","m","e">>,
            <<"r","o","o","m">>,
            <<"d","o","o","r">>,
            <<"w","i","n","d","o","w">>,
            <<"s","t","a","i","r","s">>,
            <<"b","a","s","e","m","e","n","t">>,
            <<"a","t","t","i","c">> >>],
       [theme |-> "Vehicles", keywords |->
         << <<"c","a","r">>,
            <<"t","r","a","i","n">>,
            <<"p","l","a","n","e">>,
            <<"b","u","s">>,
            <<"d","r","i","v","i","n","g">>,
            <<"c","r","a","s","h">>,
            <<"a","c","c","i","d","e","n","t">>,
            <<"t","r","a","v","e","l">> >>],
       [theme |-> "Money", keywords |->
         << <<"m","o","n","e","y">>,
            <<"c","a","s","h">>,
            <<"r","i","c","h">>,
            <<"p","o","o","r">>,
            <<"w","e","a","l","t","h","y">>,
            <<"c","o","i","n","s">>,
            <<"b","i","l","l","s">>,
            <<"t","r","e","a","s","u","r","e">> >>],
       [theme |-> "Pregnancy/Birth", keywords |->
         << <<"p","r","e","g","n","a","n","t">>,
            <<"p","r","e","g","n","a","n","c","y">>,
            <<"b","a","b","y">>,
            <<"b","i","r","t","h">>,
            <<"n","e","w","b","o","r","n">>,
            <<"l","a","b","o","r">> >>],
       [theme |-> "Nakedness", keywords |->
         << <<"n","a","k","e","d">>,
            <<"n","u","d","e">>,
            <<"u","n","d","r","e","s","s","e","d">>,
            <<"c","l","o","t","h","e","s">>,
            <<"e","m","b","a","r","r","a","s","s","e","d">>,
            <<"e","x","p","o","s","e","d">> >>],
       [theme |-> "Food", keywords |->
         << <<"f","o","o","d">>,
            <<"e","a","t","i","n","g">>,
            <<"h","u","n","g","r","y">>,
            <<"f","e","a","s","t">>,
            <<"c","o","o","k","i","n","g">>,
            <<"r","e","s","t","a","u","r","a","n","t">>,
            <<"m","e","a","l">> >>],
       [theme |-> "Lost", keywords |->
         << <<"l","o","s","t">>,
            <<"m","i","s","s","i","n","g">>,
            <<"c","a","n","'","t"," ","f","i","n","d">>,
            <<"s","e","a","r","c","h","i","n","g">>,
            <<"m","a","z","e">>,
            <<"c","o","n","f","u","s","e","d">>,
            <<"d","i","r","e","c","t","i","o","n">> >>],
       [theme |-> "Fire", keywords |->
         << <<"f","i","r","e">>,
            <<"f","l","a","m","e","s">>,
            <<"b","u","r","n">>,
            <<"b","u","r","n","i","n","g">>,
            <<"s","m","o","k","e">>,
            <<"h","e","a","t">>,
            <<"e","x","p","l","o","s","i","o","n">> >>]
    >>

\* enhanced_dream_analysis.DreamThemeAnalyzer.dream_themes, in insertion order.
EDA_dream_themes ==
    <<
       [theme |-> "Flying", keywords |->
         << <<"f","l","y">>,
            <<"f","l","y","i","n","g">>,
            <<"s","o","a","r">>,
            <<"f","l","o","a","t","i","n","g">>,
            <<"l","e","v","i","t","a","t","e">>,
            <<"w","i","n","g","s">>,
            <<"a","i","r">>,
            <<"s","k","y">>,
            <<"c","l","o","u","d","s">> >>],
       [theme |-> "Falling", keywords |->
         << <<"f","a","l","l">>,
            <<"f","a","l","l","i","n","g">>,
            <<"d","r","o","p">>,
            <<"d","r","o","p","p","e","d">>,
            <<"c","l","i","f","f">>,
            <<"h","e","i","g","h","t">>,
            <<"t","u","m","b","l","e">>,
            <<"p","l","u","n","g","e">> >>],
       [theme |-> "Chase", keywords |->
         << <<"c","h","a","s","e">>,
            <<"c","h","a","s","e","d">>,
            <<"r","u","n","n","i","n","g">>,
            <<"p","u","r","s","u","e">>,
            <<"e","s","c","a","p","e">>,
            <<"f","l","e","e">>,
            <<"h","u","n","t">>,
            <<"f","o","l","l","o","w">> >>],
       [theme |-> "Water", keywords |->
         << <<"w","a","t","e","r">>,
            <<"o","c","e","a","n">>,
            <<"s","e","a">>,
            <<"r","i","v","e","r">>,
            <<"l","a","k","e">>,
            <<"p","o","o","l">>,
            <<"s","w","i","m","m","i","n","g">>,
            <<"d","r","o","w","n","i","n","g">>,
            <<"w","a","v","e","s">> >>],
       [theme |-> "Animals", keywords |->
         << <<"d","o","g">>,
            <<"c","a","t">>,
            <<"s","n","a","k","e">>,
            <<"b","i","r","d">>,
            <<"l","i","o","n">>,
            <<"t","i","g","e","r">>,
            <<"e","l","e","p","h","a","n","t">>,
            <<"h","o","r","s","e">>,
            <<"a","n","i","m","a","l">> >>],
       [theme |-> "Family", keywords |->
         << <<"m","o","t","h","e","r">>,
            <<"f","a","t","h","e","r">>,
            <<"m","o","m">>,
            <<"d","a","d">>,
            <<"s","i","s","t","e","r">>,
            <<"b","r","o","t","h","e","r">>,
            <<"f","a","m","i","l","y">>,
            <<"r","e","l","a","t","i","v","e">> >>],
       [theme |-> "School/Work", keywords |->
         << <<"s","c","h","o","o","l">>,
            <<"t","e","a","c","h","e","r">>,
            <<"e","x","a","m">>,
            <<"t","e","s","t">>,
            <<"o","f","f","i","c","e">>,
            <<"w","o","r","k">>,
            <<"b","o","s","s">>,
            <<"m","e","e","t","i","n","g">> >>],
       [theme |-> "Death", keywords |->
         << <<"d","e","a","t","h">>,
            <<"d","i","e">>,
            <<"d","e","a","d">>,
            <<"f","u","n","e","r","a","l">>,
            <<"g","r","a","v","e">>,
            <<"g","h","o","s","t">>,
            <<"s","p","i","r","i","t">>,
            <<"c","e","m","e","t","e","r","y">> >>],
       [theme |-> "Love/Romance", keywords |->
         << <<"l","o","v","e">>,
            <<"k","i","s","s">>,
            <<"r","o","m","a","n","c","e">>,
            <<"b","o","y","f","r","i","e","n","d">>,
            <<"g","i","r","l","f","r","i","e","n","d">>,
            <<"w","e","d","d","i","n","g">>,
            <<"d","a","t","e">> >>],
       [theme |-> "Travel", keywords |->
         << <<"t","r","a","v","e","l">>,
            <<"j","o","u","r","n","e","y">>,
            <<"t","r","i","p">>,
            <<"v","a","c","a","t","i","o","n">>,
            <<"f","o","r","e","i","g","n">>,
            <<"c","o","u","n","t","r","y">>,
            <<"a","i","r","p","o","r","t">>,
            <<"t","r","a","i","n">> >>],
       [theme |-> "House/Home", keywords |->
         << <<"h","o","u","s","e">>,
            <<"h","o","m","e">>,
            <<"r","o","o","m">>,
            <<"k","i","t","c","h","e","n">>,
            <<"b","e","d","r","o","o","m">>,
            <<"b","a","t","h","r","o","o","m">>,
            <<"s","t","a","i","r","s">>,
            <<"d","o","o","r">> >>],
       [theme |-> "Money", keywords |->
         << <<"m","o","n","e","y">>,
            <<"r","i","c","h">>,
            <<"p","o","o","r">>,
            <<"l","o","t","t","e","r","y">>,
            <<"g","o","l","d">>,
            <<"t","r","e","a","s","u","r","e">>,
            <<"b","a","n","k">>,
            <<"p","a","y">>,
            <<"b","u","y">> >>],
       [theme |-> "Food", keywords |->
         << <<"f","o","o","d">>,
            <<"e","a","t">>,
            <<"e","a","t","i","n","g">>,
            <<"h","u","n","g","r","y">>,
            <<"r","e","s","t","a","u","r","a","n","t">>,
            <<"c","o","o","k","i","n","g">>,
            <<"m","e","a","l">>,
            <<"d","i","n","n","e","r">> >>],
       [theme |-> "Vehicle", keywords |->
         << <<"c","a","r">>,
            <<"b","u","s">>,
            <<"t","r","a","i","n">>,
            <<"p","l","a","n","e">>,
            <<"b","i","k","e">>,
            <<"m","o","t","o","r","c","y","c","l","e">>,
            <<"d","r","i","v","i","n","g">>,
            <<"c","r","a","s","h">> >>],
       [theme |-> "Nature", keywords |->
         << <<"f","o","r","e","s","t">>,
            <<"m","o","u","n","t","a","i","n">>,
            <<"t","r","e","e">>,
            <<"f","l","o","w","e","r">>,
            <<"g","a","r","d","e","n">>,
            <<"f","i","e","l","d">>,
            <<"v","a","l","l","e","y">>,
            <<"d","e","s","e","r","t">> >>],
       [theme |-> "Technology", keywords |->
         << <<"p","h","o","n","e">>,
            <<"c","o","m","p","u","t","e","r">>,
            <<"i","n","t","e","r","n","e","t">>,
            <<"r","o","b","o","t">>,
            <<"m","a","c","h","i","n","e">>,
            <<"g","a","d","g","e","t">>,
            <<"s","c","r","e","e","n">> >>],
       [theme |-> "Violence", keywords |->
         << <<"f","i","g","h","t">>,
            <<"f","i","g","h","t","i","n","g">>,
            <<"w","a","r">>,
            <<"w","e","a","p","o","n">>,
            <<"g","u","n">>,
            <<"k","n","i","f","e">>,
            <<"b","l","o","o","d">>,
            <<"a","t","t","a","c","k">> >>],
       [theme |-> "Supernatural", keywords |->
         << <<"m","a","g","i","c">>,
            <<"w","i","z","a","r","d">>,
            <<"w","i","t","c","h">>,
            <<"d","e","m","o","n">>,
            <<"a","n","g","e","l">>,
            <<"g","h","o","s","t">>,
            <<"s","p","i","r","i","t">>,
            <<"p","o","w","e","r">> >>]
    >>
\* ------------------------------------------------------------------------
\* analyze_dream_themes
\* ------------------------------------------------------------------------

Min(a, b) == IF a <= b THEN a ELSE b

Max(a, b) == IF a >= b THEN a ELSE b

\* [keyword] * matches
Repeat(x, n) == [i \in 1..n |-> x]

\* A confidence or a percentage is the exact fraction num / den (den > 0).
RatLE(a, b) == a.num * b.den <= b.num * a.den

RatEQ(a, b) == a.num * b.den = b.num * a.den

\* A returned value, or an exception that leaves the call.
Return(v) == [called |-> TRUE, raised |-> FALSE, value |-> v]

Raise(e) == [called |-> TRUE, raised |-> TRUE, value |-> e]

\* Body applied to a value that is computed once.
With(value, Body(_)) == CHOOSE r \in {Body(v) : v \in {value}} : TRUE

\* A test for the empty string only.
Not_EmptyStringOnly(x) == x = <<>>

\* Python's truth test "not x" for a string or None.
Not(x) == x = None \/ x = <<>>

\* The inner loop over the keywords of one theme: score and matched_keywords
\* after the first k keywords.
RECURSIVE match_keywords(_, _, _)
match_keywords(keywords, text, k) ==
    IF k = 0 THEN [score |-> 0, keywords |-> <<>>]
    ELSE LET prev    == match_keywords(keywords, text, k - 1)
             matches == findall(keywords[k], text)
         IN  IF matches > 0
             THEN [score    |-> prev.score + matches,
                   keywords |-> prev.keywords \o Repeat(keywords[k], matches)]
             ELSE prev

\* The number of sorted pairs that stay in front of a later pair with key
\* "key", were equal keys to change places (an ascending sort, reversed).
sorted_rank_Unstable(key, rest) ==
    Cardinality({i \in 1..Len(rest) :
                    RatLE(key, rest[i][1]) /\ ~RatEQ(key, rest[i][1])})

\* The number of sorted pairs that stay in front of a later pair with key
\* "key": those whose key is not smaller.
sorted_rank(key, rest) ==
    Cardinality({i \in 1..Len(rest) : RatLE(key, rest[i][1])})

\* sorted(items, key=..., reverse=True) on a sequence of <<key, item>> pairs
\* with integer keys compared as fractions: descending, and stable (items
\* with equal keys keep their relative order).
RECURSIVE sorted_reverse(_)
sorted_reverse(pairs) ==
    IF pairs = <<>> THEN <<>>
    ELSE LET n == Len(pairs)
             x == pairs[n]
         IN  With(sorted_reverse(SubSeq(pairs, 1, n - 1)),
                  LAMBDA rest :
                      LET p == sorted_rank(x[1], rest)
                      IN  SubSeq(rest, 1, p) \o <<x>>
                              \o SubSeq(rest, p + 1, Len(rest)))

Items(pairs) == [i \in 1..Len(pairs) |-> pairs[i][2]]

\* dream_analyzer.py: confidence = min((score / max(dream_length * 0.1, 1)) * 100, 100),
\* which is min(score * 1000, 100 * d) / d with d = max(dream_length, 10).
DA_confidence(score, dream_length) ==
    LET d == Max(dream_length, 10)
    IN  [num |-> Min(score * 1000, 100 * d), den |-> d]

\* The percentage without the clamp.
EDA_confidence_Unclamped(score) == [num |-> score * 20, den |-> 1]

\* enhanced_dream_analysis.py: confidence = min(score * 20, 100)
EDA_confidence(score) == [num |-> Min(score * 20, 100), den |-> 1]

\* theme_scores after the loop over the first k themes of the catalog (a dict,
\* which keeps the order of insertion).
RECURSIVE DA_theme_scores(_, _)
DA_theme_scores(content, k) ==
    IF k = 0 THEN <<>>
    ELSE LET prev == DA_theme_scores(content, k - 1)
             data == DA_dream_themes[k]
             m    == match_keywords(data.keywords, lower(content),
                                    Len(data.keywords))
         IN  IF m.score > 0
             THEN Append(prev,
                         [theme      |-> data.theme,
                          confidence |-> DA_confidence(m.score,
                                                       split_len(content)),
                          keywords   |-> m.keywords,
                          score      |-> m.score])
             ELSE prev

RECURSIVE EDA_theme_scores(_, _)
EDA_theme_scores(content, k) ==
    IF k = 0 THEN <<>>
    ELSE LET prev == EDA_theme_scores(content, k - 1)
             data == EDA_dream_themes[k]
             m    == match_keywords(data.keywords, lower(content),
                                    Len(data.keywords))
         IN  IF m.score > 0
             THEN Append(prev,
                         [theme      |-> data.theme,
                          score      |-> m.score,
                          keywords   |-> m.keywords,
                          confidence |-> EDA_confidence(m.score)])
             ELSE prev

\* The sort keys of the two analyzers.
DA_sort_key(item) == item.confidence

EDA_sort_key(item) == [num |-> item.score, den |-> 1]

\* dream_analyzer.DreamThemeAnalyzer.analyze_dream_themes
DA_analyze_dream_themes(content) ==
    IF Not(content) THEN Return(<<>>)
    ELSE IF content = None THEN Raise("AttributeError")
    ELSE LET scores == DA_theme_scores(content, Len(DA_dream_themes))
             pairs  == [i \in 1..Len(scores) |->
                           <<DA_sort_key(scores[i]), scores[i]>>]
         IN  Return(Items(sorted_reverse(pairs)))

\* enhanced_dream_analysis.DreamThemeAnalyzer.analyze_dream_themes
EDA_analyze_dream_themes(content) ==
    IF Not(content) THEN Return(<<>>)
    ELSE IF content = None THEN Raise("AttributeError")
    ELSE LET scores == EDA_theme_scores(content, Len(EDA_dream_themes))
             pairs  == [i \in 1..Len(scores) |->
                           <<EDA_sort_key(scores[i]), scores[i]>>]
         IN  Return(Items(sorted_reverse(pairs)))

\* ------------------------------------------------------------------------
\* The dream texts of the model
\* ------------------------------------------------------------------------

\* A text is a concatenation of tokens: two keywords (one capitalised), a
\* suffix that turns a keyword into a longer word ("Cat" + "egory"), a space,
\* a hyphen (a word boundary that does not end a split() word), a phrase
\* with repeated keywords and an eleven-word phrase without any keyword.
Vocabulary ==
    << <<"f","l","y">>,
       <<"C","a","t">>,
       <<"e","g","o","r","y">>,
       <<" ">>,
       <<"-">>,
       <<"c","a","t"," ","c","a","t"," ","c","a","t"," ","f","l","y"," ">>,
       <<"w","e"," ","a","l","l"," ","w","e","n","t"," ","o","u","t"," ",
         "t","o"," ","t","h","e"," ","o","l","d"," ","p","a","r","t"," ",
         "o","f"," ","t","h","a","t"," ","t","o","w","n"," ">> >>

RECURSIVE TextsOfTokens(_)
TextsOfTokens(n) ==
    IF n = 0 THEN { <<>> }
    ELSE { t \o Vocabulary[v] : t \in TextsOfTokens(n - 1),
                                v \in 1..Len(Vocabulary) }

Texts == {None} \cup UNION { TextsOfTokens(n) : n \in 0..MaxTokens }

\* ------------------------------------------------------------------------
\* Dates and the clock
\* ------------------------------------------------------------------------

\* ord(c) for the characters that occur in dates.
Ord(c) ==
    CASE c = "-" -> 45 [] c = "/" -> 47
      [] c = "0" -> 48 [] c = "1" -> 49 [] c = "2" -> 50 [] c = "3" -> 51
      [] c = "4" -> 52 [] c = "5" -> 53 [] c = "6" -> 54 [] c = "7" -> 55
      [] c = "8" -> 56 [] c = "9" -> 57

\* Python's a >= b on strings: by the first character that differs, a proper
\* prefix being the smaller.
StrGE(a, b) ==
    LET n    == Min(Len(a), Len(b))
        diff == {i \in 1..n : a[i] # b[i]}
    IN  IF diff = {} THEN Len(a) >= Len(b)
        ELSE LET i == CHOOSE d \in diff : \A e \in diff : d <= e
             IN  Ord(a[i]) > Ord(b[i])

DigitChars == <<"0","1","2","3","4","5","6","7","8","9">>

TwoDigits(n) == <<DigitChars[(n \div 10) + 1], DigitChars[(n % 10) + 1]>>

\* The clock counts days; day 1 is 2023-12-01 and day 91 is 2024-02-29.
\* strftime("%Y-%m-%d") of a day of that quarter.
strftime(day) ==
    IF day <= 31
    THEN <<"2","0","2","3","-","1","2","-">> \o TwoDigits(day)
    ELSE IF day <= 62
    THEN <<"2","0","2","4","-","0","1","-">> \o TwoDigits(day - 31)
    ELSE <<"2","0","2","4","-","0","2","-">> \o TwoDigits(day - 62)

\* The days the clock of the model shows: 2024-01-18, 2024-02-15, 2024-02-29.
ClockDays == {49, 77, 91}

\* The default of the days_back parameter, which every caller uses.
DefaultDaysBack == 30

\* ------------------------------------------------------------------------
\* Entries
\* ------------------------------------------------------------------------

\* text.split(sep), sep being one character: the pieces between the
\* occurrences of sep.
split(text, sep) ==
    LET at     == {i \in 1..Len(text) : text[i] = sep}
        n      == Cardinality(at)
        pos(k) == IF k = 0 THEN 0
                  ELSE IF k = n + 1 THEN Len(text) + 1
                  ELSE CHOOSE i \in at : Cardinality({j \in at : j <= i}) = k
    IN  [k \in 1..(n + 1) |-> SubSeq(text, pos(k - 1) + 1, pos(k) - 1)]

\* The number written with the decimal digits.
RECURSIVE DecimalValue(_)
DecimalValue(digits) ==
    IF digits = <<>> THEN 0
    ELSE 10 * DecimalValue(SubSeq(digits, 1, Len(digits) - 1))
         + (Ord(digits[Len(digits)]) - 48)

\* int(text): whitespace around the number is dropped, a sign may precede
\* the digits, anything else raises ValueError. (Underscores between digits
\* are not in the texts of the model.)
int(text) ==
    With(strip(text), LAMBDA stripped :
        LET signed == stripped # <<>> /\ stripped[1] \in {"+", "-"}
        IN  With(IF signed THEN Tail(stripped) ELSE stripped, LAMBDA digits :
                IF digits = <<>> \/ \E i \in 1..Len(digits) : digits[i] \notin Digits
                THEN Raise("ValueError")
                ELSE IF signed /\ stripped[1] = "-"
                THEN Return(0 - DecimalValue(digits))
                ELSE Return(DecimalValue(digits))))

\* hour, minute = map(int, text.split(':')): the minutes since midnight, or
\* ValueError when there are not two fields or one is not a number.
clock_minutes(text) ==
    With(split(text, ":"), LAMBDA fields :
        IF Len(fields) # 2 THEN Raise("ValueError")
        ELSE With(int(fields[1]), LAMBDA hour :
             With(int(fields[2]), LAMBDA minute :
                IF hour.raised \/ minute.raised THEN Raise("ValueError")
                ELSE Return(hour.value * 60 + minute.value))))

\* The integer nearest to total / count, a tie going to the even one.
round_half_even(total, count) ==
    LET q == total \div count
        r == total % count
    IN  IF 2 * r < count THEN q
        ELSE IF 2 * r > count THEN q + 1
        ELSE IF q % 2 = 0 THEN q ELSE q + 1

\* sleep_entry.SleepEntry._calculate_sleep_duration, in tenths of an hour:
\* round(duration_minutes / 60, 1).
\* The clock times of the model are multiples of a quarter of an hour, for
\* which duration_minutes / 60 is a binary fraction and a tie is exact.
calculate_sleep_duration(bedtime, wake_time) ==
    With(clock_minutes(bedtime), LAMBDA bed :
    With(clock_minutes(wake_time), LAMBDA wake :
        IF bed.raised \/ wake.raised THEN 0
        ELSE LET bed_minutes  == bed.value
                 wake_minutes == IF wake.value < bed.value
                                 THEN wake.value + 24 * 60
                                 ELSE wake.value
                 duration_minutes == wake_minutes - bed_minutes
             IN  round_half_even(duration_minutes * 10, 60)))

\* sleep_entry.SleepEntry.__init__ (the emotions are always given as a list,
\* so "x if x else []" returns them).
SleepEntry(date, bedtime, wake_time, sleep_quality, had_dreams, content, emotions) ==
    [date           |-> date,
     bedtime        |-> bedtime,
     wake_time      |-> wake_time,
     sleep_duration |-> calculate_sleep_duration(bedtime, wake_time),
     sleep_quality  |-> sleep_quality,
     had_dreams     |-> had_dreams,
     dream_content  |-> content,
     dream_emotions |-> emotions]

\* round(x, 1) of x = n / 4, in tenths: n / 4 is a binary fraction, so a tie
\* is exact and goes to the even tenth.
RoundQuarterToTenths(n) ==
    LET twice == n * 5             \* 2 * (n / 4) * 10
    IN  IF twice % 2 = 0 THEN twice \div 2
        ELSE IF ((twice - 1) \div 2) % 2 = 0 THEN (twice - 1) \div 2
        ELSE (twice + 1) \div 2

\* The ratings the terminal accepts: range(1, 11).
MinRating == 1

MaxRating == 10

Ratings == MinRating..MaxRating

\* A score to which the stress is added as it is.
calculate_overall_score_StressAdded(productivity, mood, energy_level, stress_level) ==
    RoundQuarterToTenths(productivity + mood + energy_level + stress_level)

\* sleep_entry.PerformanceEntry._calculate_overall_score, in tenths
calculate_overall_score(productivity, mood, energy_level, stress_level) ==
    LET inverted_stress == 11 - stress_level
    IN  RoundQuarterToTenths(productivity + mood + energy_level + inverted_stress)

\* sleep_entry.PerformanceEntry.__init__
PerformanceEntry(date, productivity, mood, energy_level, stress_level) ==
    [date          |-> date,
     productivity  |-> productivity,
     mood          |-> mood,
     energy_level  |-> energy_level,
     stress_level  |-> stress_level,
     overall_score |-> calculate_overall_score(productivity, mood,
                                               energy_level, stress_level)]

\* ------------------------------------------------------------------------
\* The entries of the model
\* ------------------------------------------------------------------------

Date15 == <<"2","0","2","4","-","0","1","-","1","5">>

Date16 == <<"2","0","2","4","-","0","1","-","1","6">>

Date17 == <<"2","0","2","4","-","0","1","-","1","7">>

Date18 == <<"2","0","2","4","-","0","1","-","1","8">>

FlyingDream ==
    <<"I"," ","w","a","s"," ","f","l","y","i","n","g"," ","o","v","e",
      "r"," ","b","e","a","u","t","i","f","u","l"," ","m","o","u","n",
      "t","a","i","n","s"," ","a","n","d"," ","f","e","l","t"," ","s",
      "o"," ","p","e","a","c","e","f","u","l"," ","a","n","d"," ","f",
      "r","e","e">>

WaterDream ==
    <<"I"," ","w","a","s"," ","s","w","i","m","m","i","n","g"," ","i",
      "n"," ","c","l","e","a","r"," ","b","l","u","e"," ","w","a","t",
      "e","r"," ","w","i","t","h"," ","d","o","l","p","h","i","n","s">>

CatFlyDream == <<"C","a","t"," ","f","l","y">>

Peaceful == <<"p","e","a","c","e","f","u","l">>

Happy == <<"h","a","p","p","y">>

Excited == <<"e","x","c","i","t","e","d">>

Joyful == <<"j","o","y","f","u","l">>

\* The clock times of the test scenario: "23:00" and "07:00".
Bedtime == <<"2","3",":","0","0">>

WakeTime == <<"0","7",":","0","0">>

\* " Peaceful": the same emotion as typed into a spreadsheet cell.
PeacefulTyped == <<" ","P","e","a","c","e","f","u","l">>

\* The entries that can be recorded: the two dreams of the repository's test
\* scenario (test_enhanced_features.py), a night with the dream flag set and
\* no dream text, a night without a dream, and a second entry for 2024-01-15.
SampleSleepEntries ==
    << SleepEntry(Date15, Bedtime, WakeTime, 8, TRUE, FlyingDream,
                  <<Peaceful, Happy, Excited>>),
       SleepEntry(Date17, Bedtime, WakeTime, 7, TRUE, WaterDream,
                  <<Peaceful, Joyful>>),
       SleepEntry(Date18, Bedtime, WakeTime, 5, TRUE, <<>>, <<>>),
       SleepEntry(Date16, Bedtime, WakeTime, 4, FALSE, <<>>, <<>>),
       SleepEntry(Date15, Bedtime, WakeTime, 3, TRUE, CatFlyDream,
                  <<PeacefulTyped>>) >>

\* The stored performance data found at start-up: none, or four days.
PerformanceLoads ==
    { <<>>,
      << PerformanceEntry(Date15, 8, 7, 9, 3),
         PerformanceEntry(Date16, 5, 5, 5, 5),
         PerformanceEntry(Date17, 6, 6, 5, 5),
         PerformanceEntry(Date18, 4, 5, 3, 8) >> }

\* Three short dreams: one with six themes, one that shares the last of
\* them, and one whose two themes the two analyzers rank differently.
SixThemesDream ==
    <<"f","l","y"," ","f","a","l","l"," ","c","h","a","s","e"," ",
      "w","a","t","e","r"," ","c","a","t"," ","d","e","a","t","h">>

MoneyDeathDream == <<"m","o","n","e","y"," ","d","e","a","t","h">>

CatCatFlyDream == <<"c","a","t"," ","c","a","t"," ","f","l","y">>

ThemeNights ==
    << SleepEntry(Date15, Bedtime, WakeTime, 7, TRUE, SixThemesDream, <<>>),
       SleepEntry(Date16, Bedtime, WakeTime, 6, TRUE, MoneyDeathDream, <<>>),
       SleepEntry(Date17, Bedtime, WakeTime, 8, TRUE, CatCatFlyDream, <<>>) >>

\* ------------------------------------------------------------------------
\* Lists, Counter and dict helpers
\* ------------------------------------------------------------------------

\* [x for x in seq if Keep(x)]: the kept elements in their order.
Filter(seq, Keep(_)) ==
    LET kept == {i \in 1..Len(seq) : Keep(seq[i])}
    IN  [k \in 1..Cardinality(kept) |->
            seq[CHOOSE i \in kept : Cardinality({j \in kept : j <= i}) = k]]

\* seq[:n]
Take(seq, n) == SubSeq(seq, 1, Min(n, Len(seq)))

\* [theme for theme, _ in themes]
ThemeNames(themes) == [i \in 1..Len(themes) |-> themes[i].theme]

\* collections.Counter(seq): <<element, count>> pairs in the order in which
\* the elements are first met.
RECURSIVE Counter(_)
Counter(seq) ==
    IF seq = <<>> THEN <<>>
    ELSE With(Counter(SubSeq(seq, 1, Len(seq) - 1)),
              LAMBDA prev :
                  LET x  == seq[Len(seq)]
                      at == {i \in 1..Len(prev) : prev[i][1] = x}
                  IN  IF at = {} THEN Append(prev, <<x, 1>>)
                      ELSE LET i == CHOOSE a \in at : TRUE
                           IN  [prev EXCEPT ![i] = <<x, prev[i][2] + 1>>])

\* A list of all the elements, most frequent first.
most_common_Uncut(counter, n) ==
    LET pairs == [i \in 1..Len(counter) |->
                     <<[num |-> counter[i][2], den |-> 1], counter[i]>>]
    IN  Items(sorted_reverse(pairs))

\* Counter.most_common(n): sorted by count, descending and stable, cut at n.
most_common(counter, n) ==
    LET pairs == [i \in 1..Len(counter) |->
                     <<[num |-> counter[i][2], den |-> 1], counter[i]>>]
    IN  Take(Items(sorted_reverse(pairs)), n)

\* A dict built by d[entry.date] = Value(entry) over a list: the last entry of
\* a date wins.
DictByDate(entries, Value(_)) ==
    [d \in {entries[i].date : i \in 1..Len(entries)} |->
        LET last == CHOOSE i \in 1..Len(entries) :
                        /\ entries[i].date = d
                        /\ \A j \in 1..Len(entries) :
                              entries[j].date = d => j <= i
        IN  Value(entries[last])]

\* The concatenation of a list of lists.
RECURSIVE Concat(_)
Concat(seqs) ==
    IF seqs = <<>> THEN <<>>
    ELSE Concat(SubSeq(seqs, 1, Len(seqs) - 1)) \o seqs[Len(seqs)]

\* The concatenation of Part(x) for x in seq (list.extend in a loop).
Extend(seq, Part(_)) == Concat([i \in 1..Len(seq) |-> Part(seq[i])])

\* ------------------------------------------------------------------------
\* dream_analyzer.DreamThemeAnalyzer: pattern aggregation
\* ------------------------------------------------------------------------

\* Python's None as a returned aggregate, and the empty dict {}.
NoneResult == [py |-> "None"]

EmptyDict == [py |-> "{}"]

\* entry.had_dreams and entry.dream_content
DA_qualifies(entry) == entry.had_dreams /\ ~Not(entry.dream_content)

\* self.analyze_dream_themes(text) for the dream texts of the model's entries,
\* evaluated once.
DreamContents ==
    {SampleSleepEntries[i].dream_content : i \in 1..Len(SampleSleepEntries)}
    \cup {SixThemesDream, MoneyDeathDream, CatCatFlyDream}

DA_themes_table ==
    {<<text, DA_analyze_dream_themes(text)>> : text \in DreamContents}

EDA_themes_table ==
    {<<text, EDA_analyze_dream_themes(text)>> : text \in DreamContents}

Lookup(table, text) == (CHOOSE pair \in table : pair[1] = text)[2]

\* The themes detected in an entry by dream_analyzer, best first.
DA_entry_themes(entry) == ThemeNames(Lookup(DA_themes_table, entry.dream_content).value)

\* "More than 20%", as the comment above the test reads.
DA_is_recurring_Strict(count, total_dreams) == count * 10 > 2 * total_dreams

\* count / total_dreams >= 0.2
DA_is_recurring(count, total_dreams) == count * 10 >= 2 * total_dreams

\* The loop over theme_counter.items() that builds recurring_themes.
DA_recurring_themes(theme_counter, total_dreams) ==
    LET kept == Filter(theme_counter,
                       LAMBDA tc : DA_is_recurring(tc[2], total_dreams))
    IN  [i \in 1..Len(kept) |->
            [theme      |-> kept[i][1],
             count      |-> kept[i][2],
             percentage |-> [num |-> kept[i][2] * 100, den |-> total_dreams]]]

\* The loop that builds emotional_themes.
DA_emotional_themes(dream_entries) ==
    LET with == Filter(dream_entries,
                       LAMBDA e : e.dream_emotions # <<>>
                                  /\ DA_entry_themes(e) # <<>>)
    IN  [i \in 1..Len(with) |->
            [emotions      |-> with[i].dream_emotions,
             themes        |-> Take(DA_entry_themes(with[i]), 2),
             sleep_quality |-> with[i].sleep_quality]]

\* dream_analyzer.DreamThemeAnalyzer.analyze_dream_patterns
DA_analyze_dream_patterns(entries) ==
    LET dream_entries == Filter(entries, DA_qualifies)
    IN  IF dream_entries = <<>> THEN Return(NoneResult)
        ELSE
        LET all_themes    == Extend(dream_entries, DA_entry_themes)
            theme_counter == Counter(all_themes)
            total_dreams  == Len(dream_entries)
        IN  Return(
              [py                 |-> "dict",
               total_dream_nights |-> total_dreams,
               most_common_themes |-> most_common(theme_counter, 5),
               recurring_themes   |-> DA_recurring_themes(theme_counter,
                                                          total_dreams),
               dreams_by_date     |-> DictByDate(dream_entries, DA_entry_themes),
               emotional_theme_correlation |->
                                      DA_emotional_themes(dream_entries),
               analysis_period    |-> <<dream_entries[1].date,
                                        dream_entries[Len(dream_entries)].date>>])

\* The (emotion, theme) associations in the order in which
\* correlations[emotion.lower().strip()].append(theme) makes them: for every
\* qualifying entry with emotions, each emotion with the entry's two best
\* themes.
DA_associations(entries) ==
    Extend(Filter(entries,
                  LAMBDA e : DA_qualifies(e) /\ e.dream_emotions # <<>>),
           LAMBDA entry :
               Extend(entry.dream_emotions,
                      LAMBDA emotion :
                          LET themes == Take(DA_entry_themes(entry), 2)
                          IN  [i \in 1..Len(themes) |->
                                  <<strip(lower(emotion)), themes[i]>>]))

\* Every emotion with an association is reported.
DA_is_reported_Always(theme_list) == Len(theme_list) >= 1

\* An emotion is reported when one of its themes is associated at least twice.
DA_is_reported_PerTheme(theme_list) ==
    \E i, j \in 1..Len(theme_list) : i < j /\ theme_list[i] = theme_list[j]

\* "if len(theme_list) >= 2": an emotion is reported when it has at least two
\* associations.
DA_is_reported(theme_list) == Len(theme_list) >= 2

\* dream_analyzer.DreamThemeAnalyzer.analyze_emotional_dream_correlation: the
\* returned dict as the list of its items, in insertion order.
\* correlations[emotion]: the themes associated with an emotion, in order.
DA_theme_list(assoc, emotion) ==
    LET pairs == Filter(assoc, LAMBDA a : a[1] = emotion)
    IN  [j \in 1..Len(pairs) |-> pairs[j][2]]

\* The emotions of the associations, in the order in which they are first met
\* (the keys of the defaultdict).
DA_emotion_keys(assoc) ==
    With(Counter([i \in 1..Len(assoc) |-> assoc[i][1]]),
         LAMBDA counted : [i \in 1..Len(counted) |-> counted[i][1]])

\* The entry of emotion_theme_patterns for an emotion with its theme list.
DA_pattern(emotion, theme_list) ==
    With(most_common(Counter(theme_list), 1)[1],
         LAMBDA top : [emotion           |-> emotion,
                       most_common_theme |-> top[1],
                       frequency         |-> top[2],
                       total_occurrences |-> Len(theme_list)])

\* dream_analyzer.DreamThemeAnalyzer.analyze_emotional_dream_correlation: the
\* returned dict as the list of its items, in insertion order.
DA_analyze_emotional_dream_correlation(entries) ==
    With(DA_associations(entries),
         LAMBDA assoc :
             With(Filter(DA_emotion_keys(assoc),
                         LAMBDA emotion :
                             DA_is_reported(DA_theme_list(assoc, emotion))),
                  LAMBDA kept :
                      Return([i \in 1..Len(kept) |->
                                 With(DA_theme_list(assoc, kept[i]),
                                      LAMBDA theme_list :
                                          DA_pattern(kept[i], theme_list))])))

\* ------------------------------------------------------------------------
\* enhanced_dream_analysis.DreamThemeAnalyzer: pattern aggregation
\* ------------------------------------------------------------------------

\* (datetime.now() - timedelta(days=days_back)).strftime("%Y-%m-%d")
EDA_cutoff_date(today, days_back) == strftime(today - days_back)

\* entry.had_dreams and entry.date >= cutoff_date
EDA_is_recent(entry, cutoff_date) ==
    entry.had_dreams /\ StrGE(entry.date, cutoff_date)

\* The themes detected in an entry by enhanced_dream_analysis, best first.
EDA_entry_themes(entry) ==
    ThemeNames(Lookup(EDA_themes_table, entry.dream_content).value)

\* enhanced_dream_analysis.DreamThemeAnalyzer.analyze_dream_patterns, with
\* the clock's day as a parameter.
EDA_analyze_dream_patterns(dream_entries, days_back, today) ==
    IF dream_entries = <<>> THEN Return(EmptyDict)
    ELSE
    LET cutoff_date   == EDA_cutoff_date(today, days_back)
        recent_dreams == Filter(dream_entries,
                                LAMBDA e : EDA_is_recent(e, cutoff_date))
    IN  IF recent_dreams = <<>> THEN Return(EmptyDict)
        ELSE
        LET all_themes       == Extend(recent_dreams, EDA_entry_themes)
            emotion_patterns == Counter(Extend(recent_dreams,
                                               LAMBDA e : e.dream_emotions))
            theme_frequency  == Counter(all_themes)
        IN  Return(
              [py                   |-> "dict",
               total_dream_nights   |-> Len(recent_dreams),
               most_common_themes   |-> most_common(theme_frequency, 5),
               most_common_emotions |-> most_common(emotion_patterns, 5),
               theme_frequency      |-> theme_frequency,
               dreams_by_date       |-> DictByDate(recent_dreams,
                                                   EDA_entry_themes),
               analysis_period      |-> days_back])

\* ------------------------------------------------------------------------
\* sleep_entry.SleepAnalyzer.analyze_correlations
\* ------------------------------------------------------------------------

\* sum(f(d) for d in dates) over a set of dates.
RECURSIVE SumOver(_, _)
SumOver(dates, score) ==
    IF dates = {} THEN 0
    ELSE LET d == CHOOSE x \in dates : TRUE
         IN  score[d] + SumOver(dates \ {d}, score)

\* round(total / count, 1) in tenths, total being a sum of tenths: the
\* nearest tenth, a tie going to the even one.
RoundAverage(total, count) ==
    LET q == total \div count
        r == total % count
    IN  IF 2 * r < count THEN q
        ELSE IF 2 * r > count THEN q + 1
        ELSE IF q % 2 = 0 THEN q ELSE q + 1

\* A join that is content with two matching dates.
enough_matched_dates_Two(matched_dates) == Cardinality(matched_dates) >= 2

\* not (len(matched_dates) < 3)
enough_matched_dates(matched_dates) == ~(Cardinality(matched_dates) < 3)

\* A good night that needs a quality above 7.
good_sleep_Above(quality) == quality > 7

\* sleep_entry.sleep_quality >= 7
good_sleep(quality) == quality >= 7

\* elif sleep_entry.sleep_quality <= 4
poor_sleep(quality) == ~good_sleep(quality) /\ quality <= 4

\* sleep_entry.SleepAnalyzer.analyze_correlations: the returned list, a
\* message being its kind and, for an average, the value in tenths.
analyze_correlations(sleep, performance) ==
    IF sleep = <<>> \/ performance = <<>>
    THEN Return(<< [kind |-> "Insufficient data for correlation analysis"] >>)
    ELSE
    LET sleep_dict       == DictByDate(sleep, LAMBDA e : e)
        performance_dict == DictByDate(performance, LAMBDA e : e)
        matched_dates    == DOMAIN sleep_dict \cap DOMAIN performance_dict
    IN  IF ~enough_matched_dates(matched_dates)
        THEN Return(<< [kind |->
                "Need at least 3 matching dates for correlation analysis"] >>)
        ELSE
        LET score == [d \in matched_dates |-> performance_dict[d].overall_score]
            high  == {d \in matched_dates :
                         good_sleep(sleep_dict[d].sleep_quality)}
            low   == {d \in matched_dates :
                         poor_sleep(sleep_dict[d].sleep_quality)}
            dream == {d \in matched_dates : sleep_dict[d].had_dreams}
            nodream == matched_dates \ dream
            Average(kind, dates) ==
                [kind    |-> kind,
                 average |-> RoundAverage(SumOver(dates, score),
                                          Cardinality(dates))]
            correlations ==
                (IF high # {}
                 THEN << Average("Average performance on good sleep days (7+)",
                                 high) >>
                 ELSE <<>>)
                \o
                (IF low # {}
                 THEN << Average("Average performance on poor sleep days (<=4)",
                                 low) >>
                 ELSE <<>>)
                \o
                (IF dream # {} /\ nodream # {}
                 THEN << Average("Average performance with dreams", dream),
                         Average("Average performance without dreams",
                                 nodream) >>
                 ELSE <<>>)
        IN  IF correlations # <<>> THEN Return(correlations)
            ELSE Return(<< [kind |-> "No significant correlations found"] >>)

\* ------------------------------------------------------------------------
\* utils: the statistics helpers
\* ------------------------------------------------------------------------

\* The arguments the helpers are called with: a list of integers or of
\* strings, None, and a bare number.
PyList(of, items) == [py |-> "list", of |-> of, items |-> items]

PyInt(value) == [py |-> "int", value |-> value]

IsIntList(x) == x.py = "list" /\ x.of = "int"

\* bool(x): None, 0 and the empty list are false.
truth(x) ==
    CASE x.py = "None" -> FALSE
      [] x.py = "int"  -> x.value # 0
      [] x.py = "list" -> x.items # <<>>

\* a > b and a < b on two elements of a list: integers by value, strings
\* character by character.
GT(of, a, b) == IF of = "int" THEN a > b ELSE StrGE(a, b) /\ a # b

LT(of, a, b) == GT(of, b, a)

\* sum(numbers) of a list of integers
RECURSIVE sum(_)
sum(items) == IF items = <<>> THEN 0 ELSE items[1] + sum(Tail(items))

\* min(values) and max(values) of a non-empty list: the first of the
\* smallest, and of the largest, elements
minimum(values) ==
    values.items[CHOOSE i \in 1..Len(values.items) :
                    \A j \in 1..Len(values.items) :
                        ~LT(values.of, values.items[j], values.items[i])]

maximum(values) ==
    values.items[CHOOSE i \in 1..Len(values.items) :
                    \A j \in 1..Len(values.items) :
                        ~GT(values.of, values.items[j], values.items[i])]

\* An average that drops the fraction.
safe_average_Floor(numbers) ==
    IF ~truth(numbers) THEN Return([num |-> 0, den |-> 1])
    ELSE IF IsIntList(numbers)
    THEN Return([num |-> sum(numbers.items) \div Len(numbers.items),
                 den |-> 1])
    ELSE Return([num |-> 0, den |-> 1])

\* utils.safe_average: the mean as a fraction. sum() of a number or of
\* strings raises TypeError, which the except clause turns into 0.
safe_average(numbers) ==
    IF ~truth(numbers) THEN Return([num |-> 0, den |-> 1])
    ELSE IF IsIntList(numbers)
    THEN Return([num |-> sum(numbers.items), den |-> Len(numbers.items)])
    ELSE Return([num |-> 0, den |-> 1])

\* The number of positions i of range(1, len(values)) at which Changed holds
\* of values[i] and values[i-1].
count_changes(values, Changed(_, _, _)) ==
    Cardinality({i \in 2..Len(values.items) :
                    Changed(values.of, values.items[i], values.items[i - 1])})

\* A trend read from the first and the last value only.
calculate_trend_Endpoints(values) ==
    IF values.py # "list" THEN Raise("TypeError")
    ELSE IF Len(values.items) < 2 THEN Return("Insufficient data")
    ELSE LET first == values.items[1]
             last  == values.items[Len(values.items)]
         IN  IF GT(values.of, last, first) THEN Return("Improving")
             ELSE IF LT(values.of, last, first) THEN Return("Declining")
             ELSE Return("Stable")

\* utils.calculate_trend; len() of None or of a number raises TypeError.
calculate_trend(values) ==
    IF values.py # "list" THEN Raise("TypeError")
    ELSE IF Len(values.items) < 2 THEN Return("Insufficient data")
    ELSE LET increases == count_changes(values, GT)
             decreases == count_changes(values, LT)
         IN  IF increases > decreases THEN Return("Improving")
             ELSE IF decreases > increases THEN Return("Declining")
             ELSE Return("Stable")

\* round(x, 2) of a fraction, in hundredths
round2(x) == RoundAverage(100 * x.num, x.den)

\* utils.get_statistics_summary, the average in hundredths. A number other
\* than 0 passes "if not values" and len() raises TypeError.
get_statistics_summary(values) ==
    IF ~truth(values)
    THEN Return([count |-> 0, min |-> 0, max |-> 0, average |-> 0,
                 trend |-> "No data"])
    ELSE IF values.py # "list" THEN Raise("TypeError")
    ELSE Return([count   |-> Len(values.items),
                 min     |-> minimum(values),
                 max     |-> maximum(values),
                 average |-> round2(safe_average(values).value),
                 trend   |-> calculate_trend(values).value])

\* The ratings the lists of the model are made of, and the lists of up to
\* MaxValues of them.
StatRatings == {1, 5, 6, 7, 8}

RatingLists == UNION {[1..n -> StatRatings] : n \in 0..MaxValues}

\* Arguments of another type: None, the numbers 0 and 5, and ratings that
\* were left as the strings they were read as.
WrongTypeArguments ==
    { NoneResult, PyInt(0), PyInt(5),
      PyList("str", << <<"7">>, <<"1","0">> >>),
      PyList("str", << <<"9">>, <<"8">>, <<"7">> >>) }

StatArguments == {PyList("int", v) : v \in RatingLists} \cup WrongTypeArguments
\* ------------------------------------------------------------------------
\* Dream statistics
\* ------------------------------------------------------------------------

\* A frequency that counts only the dreams that have a text.
get_dream_frequency_WithText(entries) ==
    IF entries = <<>> THEN 0
    ELSE LET dream_count ==
                 Cardinality({i \in 1..Len(entries) :
                     entries[i].had_dreams /\ entries[i].dream_content # <<>>})
         IN  round_half_even(dream_count * 1000, Len(entries))

\* sleep_entry.SleepAnalyzer.get_dream_frequency, in tenths of a per cent:
\* round(dream_count / len * 100, 1). (A tie needs a collection of 16
\* entries.)
get_dream_frequency(entries) ==
    IF entries = <<>> THEN 0
    ELSE LET dream_count ==
                 Cardinality({i \in 1..Len(entries) : entries[i].had_dreams})
         IN  round_half_even(dream_count * 1000, Len(entries))

\* emotion.lower().strip()
normal_emotion(emotion) == strip(lower(emotion))

\* The labels of a list as they are counted: as typed, or normalised.
labels_of(emotions, normalised) ==
    [k \in 1..Len(emotions) |->
        IF normalised THEN normal_emotion(emotions[k]) ELSE emotions[k]]

\* sleep_entry.SleepAnalyzer.get_most_common_dream_emotions: the five most
\* frequent labels with their counts; sorted() is stable, so labels of equal
\* count stay in the order of their first occurrence.
get_most_common_dream_emotions(entries) ==
    LET counted == Filter(entries,
                          LAMBDA e : e.had_dreams /\ e.dream_emotions # <<>>)
        labels  == Extend(counted,
                          LAMBDA e : labels_of(e.dream_emotions, TRUE))
    IN  most_common(Counter(labels), 5)

\* round(sum(values) / len(values), 1) if values else 0, in tenths
mean_tenths(values) ==
    IF values = <<>> THEN 0 ELSE RoundAverage(10 * sum(values), Len(values))

\* The qualities of the entries of a list.
qualities(entries) == [i \in 1..Len(entries) |-> entries[i].sleep_quality]

\* len(entry.dream_content.split()) of the entries that have a dream text.
word_counts(entries) ==
    LET told == Filter(entries, LAMBDA e : e.dream_content # <<>>)
    IN  [i \in 1..Len(told) |-> split_len(told[i].dream_content)]

\* The dict that both get_dream_statistics return for a collection with
\* dreams; they differ in how they read the emotion labels.
dream_statistics(entries, normalised) ==
    LET dream_entries    == Filter(entries, LAMBDA e : e.had_dreams)
        no_dream_entries == Filter(entries, LAMBDA e : ~e.had_dreams)
        all_emotions     == Extend(dream_entries,
                                LAMBDA e : labels_of(e.dream_emotions,
                                                     normalised))
    IN  [py                               |-> "dict",
         total_nights                     |-> Len(entries),
         dream_nights                     |-> Len(dream_entries),
         dream_frequency                  |->
             round_half_even(Len(dream_entries) * 1000, Len(entries)),
         average_dream_length_words       |->
             mean_tenths(word_counts(dream_entries)),
         avg_sleep_quality_with_dreams    |->
             mean_tenths(qualities(dream_entries)),
         avg_sleep_quality_without_dreams |->
             mean_tenths(qualities(no_dream_entries)),
         most_common_emotions             |->
             most_common(Counter(all_emotions), 5),
         total_emotions_recorded          |-> Len(all_emotions),
         unique_emotions                  |->
             Cardinality({all_emotions[k] : k \in 1..Len(all_emotions)})]

\* dream_journal.DreamJournal.get_dream_statistics
DJ_get_dream_statistics(entries) ==
    IF entries = <<>> THEN Return(NoneResult)
    ELSE IF \A i \in 1..Len(entries) : ~entries[i].had_dreams
    THEN Return([py                               |-> "dict",
                 total_nights                     |-> Len(entries),
                 dream_nights                     |-> 0,
                 dream_frequency                  |-> 0,
                 average_dream_length_words       |-> 0,
                 avg_sleep_quality_with_dreams    |-> 0,
                 avg_sleep_quality_without_dreams |-> 0,
                 most_common_emotions             |-> <<>>,
                 total_emotions_recorded          |-> 0,
                 unique_emotions                  |-> 0])
    ELSE Return(dream_statistics(entries, TRUE))

\* enhanced_dream_analysis.DreamJournal.get_dream_statistics
EDA_get_dream_statistics(entries) ==
    IF entries = <<>> THEN Return(EmptyDict)
    ELSE IF \A i \in 1..Len(entries) : ~entries[i].had_dreams
    THEN Return([py              |-> "dict",
                 total_nights    |-> Len(entries),
                 dream_nights    |-> 0,
                 dream_frequency |-> 0])
    ELSE Return(dream_statistics(entries, FALSE))

\* ------------------------------------------------------------------------
\* Conversions between entries and their stored forms
\* ------------------------------------------------------------------------

\* sep.join(items), sep being one character
RECURSIVE join(_, _)
join(sep, items) ==
    IF items = <<>> THEN <<>>
    ELSE IF Len(items) = 1 THEN items[1]
    ELSE items[1] \o << sep >> \o join(sep, Tail(items))

\* str(n) of an integer
RECURSIVE DecimalDigits(_)
DecimalDigits(n) ==
    IF n < 10 THEN << DigitChars[n + 1] >>
    ELSE DecimalDigits(n \div 10) \o << DigitChars[(n % 10) + 1] >>

str_int(n) == IF n < 0 THEN << "-" >> \o DecimalDigits(0 - n)
              ELSE DecimalDigits(n)

\* str(flag) of a bool
str_bool(flag) == IF flag THEN <<"T","r","u","e">>
                  ELSE <<"F","a","l","s","e">>

\* [emotion.strip() for emotion in text.split(',') if emotion.strip()], and
\* [] for the empty text
parse_emotions(text) ==
    IF text = <<>> THEN <<>>
    ELSE LET parts == split(text, ",")
         IN  Filter([i \in 1..Len(parts) |-> strip(parts[i])],
                    LAMBDA emotion : emotion # <<>>)

\* list.sort(key=lambda x: x.date): ascending by the date text, entries with
\* equal dates keeping their order.
sort_by_date(entries) ==
    LET n == Len(entries)
        before(i, j) ==
            \/ ~StrGE(entries[i].date, entries[j].date)
            \/ entries[i].date = entries[j].date /\ i < j
        rank(i) == 1 + Cardinality({j \in 1..n : before(j, i)})
    IN  [k \in 1..n |-> entries[CHOOSE i \in 1..n : rank(i) = k]]

EntryDates(entries) == {entries[i].date : i \in 1..Len(entries)}

\* isinstance(x, SleepEntry) and isinstance(x, PerformanceEntry), by the
\* attribute only the class has.
isinstance_SleepEntry(x) == "sleep_duration" \in DOMAIN x

isinstance_PerformanceEntry(x) == "overall_score" \in DOMAIN x

\* ------------------------------------------------------------------------
\* file_handler.FileHandler: the text files, a file being the sequence of
\* its lines and a missing file the empty sequence
\* ------------------------------------------------------------------------

\* file_handler.FileHandler.save_sleep_data
save_sleep_data(entries) ==
    [i \in 1..Len(entries) |->
        join("|", << entries[i].date,
                     entries[i].bedtime,
                     entries[i].wake_time,
                     str_int(entries[i].sleep_quality),
                     str_bool(entries[i].had_dreams),
                     entries[i].dream_content,
                     join(",", entries[i].dream_emotions) >>)]

\* A line is read when it is not blank, has 7 parts, and its numbers parse.
sleep_line_read(line) ==
    LET parts == split(strip(line), "|")
    IN  /\ strip(line) # <<>>
        /\ Len(parts) = 7
        /\ ~int(parts[4]).raised

sleep_entry_of_line(line) ==
    LET parts == split(strip(line), "|")
    IN  SleepEntry(parts[1], parts[2], parts[3], int(parts[4]).value,
                   lower(parts[5]) = <<"t","r","u","e">>,
                   parts[6], parse_emotions(parts[7]))

\* file_handler.FileHandler.load_sleep_data
load_sleep_data(lines) ==
    LET read == Filter(lines, sleep_line_read)
    IN  [i \in 1..Len(read) |-> sleep_entry_of_line(read[i])]

\* file_handler.FileHandler.save_performance_data; the activities and the
\* notes are left empty in the model.
save_performance_data(entries) ==
    [i \in 1..Len(entries) |->
        join("|", << entries[i].date,
                     str_int(entries[i].productivity),
                     str_int(entries[i].mood),
                     str_int(entries[i].energy_level),
                     str_int(entries[i].stress_level),
                     <<>>, <<>> >>)]

performance_line_read(line) ==
    LET parts == split(strip(line), "|")
    IN  /\ strip(line) # <<>>
        /\ Len(parts) = 7
        /\ \A k \in 2..5 : ~int(parts[k]).raised

performance_entry_of_line(line) ==
    LET parts == split(strip(line), "|")
    IN  PerformanceEntry(parts[1], int(parts[2]).value, int(parts[3]).value,
                         int(parts[4]).value, int(parts[5]).value)

\* file_handler.FileHandler.load_performance_data
load_performance_data(lines) ==
    LET read == Filter(lines, performance_line_read)
    IN  [i \in 1..Len(read) |-> performance_entry_of_line(read[i])]

\* ------------------------------------------------------------------------
\* excel_handler.ExcelHandler: the workbooks, a sheet being the sequence of
\* its rows and a row its cells together with the set of the empty ones
\* ------------------------------------------------------------------------

\* pd.notna(row[column])
notna(row, column) == column \notin row.missing

\* A row as it is read back after it was written: a text cell written with
\* the empty string is empty.
written_row(cells, text_columns) ==
    [cells   |-> cells,
     missing |-> {column \in text_columns : cells[column] = <<>>}]

\* "if not date or date == 'nan': continue"
row_read(row) ==
    /\ notna(row, "Date")
    /\ row.cells.Date # <<>>
    /\ row.cells.Date # <<"n","a","n">>

\* An entry of a row of the sheet Sleep_Data, with the defaults for the empty
\* cells.
sleep_entry_of_row(row) ==
    SleepEntry(row.cells.Date,
               IF notna(row, "Bedtime") THEN row.cells.Bedtime
               ELSE <<"0","0",":","0","0">>,
               IF notna(row, "Wake_Time") THEN row.cells.Wake_Time
               ELSE <<"0","0",":","0","0">>,
               IF notna(row, "Sleep_Quality") THEN row.cells.Sleep_Quality
               ELSE 0,
               IF notna(row, "Had_Dreams") THEN row.cells.Had_Dreams
               ELSE FALSE,
               IF notna(row, "Dream_Content") THEN row.cells.Dream_Content
               ELSE <<>>,
               IF notna(row, "Dream_Emotions")
               THEN parse_emotions(row.cells.Dream_Emotions) ELSE <<>>)

\* excel_handler.ExcelHandler.load_sleep_data_from_excel
load_sleep_data_from_excel(rows) ==
    LET read == Filter(rows, row_read)
    IN  [i \in 1..Len(read) |-> sleep_entry_of_row(read[i])]

\* excel_handler.ExcelHandler.save_sleep_data_to_excel: the sheet as it is
\* read back.
save_sleep_data_to_excel(entries) ==
    [i \in 1..Len(entries) |->
        written_row(
            [Date           |-> entries[i].date,
             Bedtime        |-> entries[i].bedtime,
             Wake_Time      |-> entries[i].wake_time,
             Sleep_Quality  |-> entries[i].sleep_quality,
             Had_Dreams     |-> entries[i].had_dreams,
             Dream_Content  |-> entries[i].dream_content,
             Dream_Emotions |-> join(",", entries[i].dream_emotions)],
            {"Date", "Bedtime", "Wake_Time", "Dream_Content",
             "Dream_Emotions"})]

\* The entries of a file without those of the entry's date, the entry
\* appended, sorted by date.
with_single_entry(existing_entries, entry) ==
    sort_by_date(
        Append(Filter(existing_entries, LAMBDA e : e.date # entry.date),
               entry))

\* excel_handler.ExcelHandler.add_single_sleep_entry_to_excel
add_single_sleep_entry_to_excel(rows, sleep_entry) ==
    save_sleep_data_to_excel(
        with_single_entry(load_sleep_data_from_excel(rows), sleep_entry))

\* An entry of a row of the sheet Performance_Data.
performance_entry_of_row(row) ==
    PerformanceEntry(
        row.cells.Date,
        IF notna(row, "Productivity") THEN row.cells.Productivity ELSE 0,
        IF notna(row, "Mood") THEN row.cells.Mood ELSE 0,
        IF notna(row, "Energy_Level") THEN row.cells.Energy_Level ELSE 0,
        IF notna(row, "Stress_Level") THEN row.cells.Stress_Level ELSE 0)

\* excel_handler.ExcelHandler.load_performance_data_from_excel
load_performance_data_from_excel(rows) ==
    LET read == Filter(rows, row_read)
    IN  [i \in 1..Len(read) |-> performance_entry_of_row(read[i])]

\* excel_handler.ExcelHandler.save_performance_data_to_excel
save_performance_data_to_excel(entries) ==
    [i \in 1..Len(entries) |->
        written_row(
            [Date         |-> entries[i].date,
             Productivity |-> entries[i].productivity,
             Mood         |-> entries[i].mood,
             Energy_Level |-> entries[i].energy_level,
             Stress_Level |-> entries[i].stress_level],
            {"Date"})]

\* excel_handler.ExcelHandler.add_single_performance_entry_to_excel
add_single_performance_entry_to_excel(rows, performance_entry) ==
    save_performance_data_to_excel(
        with_single_entry(load_performance_data_from_excel(rows),
                          performance_entry))

\* get_excel_file_info()[...'_entries_count']: len(df.dropna(subset=['Date']))
entries_count(rows) ==
    Cardinality({i \in 1..Len(rows) : notna(rows[i], "Date")})

\* main.load_data_from_excel, "Merge data (avoid duplicates by date)"
merge_new_entries(existing, loaded) ==
    existing \o Filter(loaded, LAMBDA e : e.date \notin EntryDates(existing))
\* ------------------------------------------------------------------------
\* The averages of the analyzer and the sections of the report
\* ------------------------------------------------------------------------

\* sleep_entry.SleepAnalyzer.calculate_average_sleep_quality, in tenths:
\* 0 for no entries, round(total / len, 1) otherwise
calculate_average_sleep_quality(entries) ==
    IF entries = <<>> THEN 0
    ELSE RoundAverage(10 * sum(qualities(entries)), Len(entries))

\* sleep_entry.SleepAnalyzer.calculate_average_sleep_duration, in tenths of
\* an hour (the durations are tenths already)
calculate_average_sleep_duration(entries) ==
    IF entries = <<>> THEN 0
    ELSE RoundAverage(sum([i \in 1..Len(entries) |->
                              entries[i].sleep_duration]),
                      Len(entries))

\* The sum of one rating over the entries of a list.
total_of(entries, rating) ==
    sum([i \in 1..Len(entries) |-> entries[i][rating]])

\* round(total_<rating> / count, 1) of calculate_average_performance, in
\* tenths
rounded_rating(entries, rating) ==
    RoundAverage(10 * total_of(entries, rating), Len(entries))

\* sleep_entry.SleepAnalyzer.calculate_average_performance: {} for no
\* entries, the five rounded averages otherwise, in tenths (the overall
\* scores are tenths already)
calculate_average_performance(entries) ==
    IF entries = <<>> THEN EmptyDict
    ELSE [py           |-> "dict",
          productivity |-> rounded_rating(entries, "productivity"),
          mood         |-> rounded_rating(entries, "mood"),
          energy       |-> rounded_rating(entries, "energy_level"),
          stress       |-> rounded_rating(entries, "stress_level"),
          overall      |-> RoundAverage(total_of(entries, "overall_score"),
                                        Len(entries))]

\* The recommendations of the rules about the nights.
sleep_recommendations(nights) ==
    IF nights = <<>> THEN <<>>
    ELSE (IF calculate_average_sleep_quality(nights) < 60
          THEN <<"Focus on improving sleep quality - consider sleep hygiene practices">>
          ELSE <<>>)
      \o (IF calculate_average_sleep_duration(nights) < 70
          THEN <<"Aim for 7-9 hours of sleep per night for optimal performance">>
          ELSE IF calculate_average_sleep_duration(nights) > 90
          THEN <<"Consider if you're oversleeping - 7-9 hours is typically optimal">>
          ELSE <<>>)
      \o (IF get_dream_frequency(nights) > 800
          THEN <<"High dream recall - consider keeping detailed dream journal">>
          ELSE IF get_dream_frequency(nights) < 200
          THEN <<"Low dream recall - try meditation or stress reduction techniques">>
          ELSE <<>>)

\* The recommendations of the rules about the days.
performance_recommendations(days) ==
    IF days = <<>> THEN <<>>
    ELSE With(calculate_average_performance(days), LAMBDA avg_performance :
           (IF avg_performance.stress > 70
            THEN <<"High stress levels detected - consider stress management techniques">>
            ELSE <<>>)
        \o (IF avg_performance.energy < 50
            THEN <<"Low energy levels - review sleep schedule and consider exercise">>
            ELSE <<>>)
        \o (IF avg_performance.productivity < 60
            THEN <<"Focus on productivity optimization - analyze your peak performance times">>
            ELSE <<>>))

\* The recommendations about the amount of data.
data_recommendations(nights, days) ==
       (IF Len(nights) < 14
        THEN <<"Continue logging data for at least 2 weeks for meaningful insights">>
        ELSE <<>>)
    \o (IF Len(days) < Len(nights)
        THEN <<"Log performance data consistently with sleep data for better correlations">>
        ELSE <<>>)

\* reports.ReportGenerator._generate_recommendations: the recommendations in
\* the order of the numbered lines of the section, without their pictograms
generate_recommendations(nights, days) ==
    With(sleep_recommendations(nights) \o performance_recommendations(days)
             \o data_recommendations(nights, days),
         LAMBDA recommendations :
            IF recommendations = <<>>
            THEN <<"Great job maintaining consistent sleep and performance tracking!",
                   "Continue monitoring patterns for long-term insights">>
            ELSE recommendations)

\* The label of the quality range of an entry:
\* f"{(q-1)//2*2+1}-{(q-1)//2*2+2}", and "9-10" from 9 on
quality_range(sleep_quality) ==
    IF sleep_quality >= 9 THEN <<"9","-","1","0">>
    ELSE str_int(((sleep_quality - 1) \div 2) * 2 + 1) \o <<"-">>
         \o str_int(((sleep_quality - 1) \div 2) * 2 + 2)

\* The duration category of an entry, the duration in tenths of an hour
duration_category(duration) ==
    IF duration < 60 THEN "<6h"
    ELSE IF duration < 70 THEN "6-7h"
    ELSE IF duration < 80 THEN "7-8h"
    ELSE IF duration < 90 THEN "8-9h"
    ELSE ">9h"

\* The keys of duration_categories
DurationCategories == {"<6h", "6-7h", "7-8h", "8-9h", ">9h"}

\* reports.ReportGenerator._generate_sleep_analysis: the values the text of
\* the section is written from; None stands for the text "No sleep data
\* available for analysis."
generate_sleep_analysis(nights) ==
    IF nights = <<>> THEN NoneResult
    ELSE [py                   |-> "dict",
          avg_quality          |-> calculate_average_sleep_quality(nights),
          avg_duration         |-> calculate_average_sleep_duration(nights),
          quality_distribution |->
              Counter([i \in 1..Len(nights) |->
                          quality_range(nights[i].sleep_quality)]),
          duration_categories  |->
              [category \in DurationCategories |->
                  Cardinality({i \in 1..Len(nights) :
                      duration_category(nights[i].sleep_duration)
                          = category})],
          quality_stats        |->
              get_statistics_summary(
                  PyList("int", qualities(nights))).value,
          best_sleep           |->
              nights[CHOOSE i \in 1..Len(nights) :
                  /\ \A j \in 1..Len(nights) :
                        nights[j].sleep_quality <= nights[i].sleep_quality
                  /\ \A j \in 1..(i - 1) :
                        nights[j].sleep_quality < nights[i].sleep_quality],
          worst_sleep          |->
              nights[CHOOSE i \in 1..Len(nights) :
                  /\ \A j \in 1..Len(nights) :
                        nights[j].sleep_quality >= nights[i].sleep_quality
                  /\ \A j \in 1..(i - 1) :
                        nights[j].sleep_quality > nights[i].sleep_quality]]

\* ------------------------------------------------------------------------
\* State
\* ------------------------------------------------------------------------

VARIABLES
    dream_content,        \* the argument of analyze_dream_themes
    da_themes,            \* result of dream_analyzer's analyze_dream_themes
    eda_themes,           \* result of enhanced_dream_analysis' analyze_dream_themes
    sleep_entries,        \* SleepAnalyzer.sleep_entries
    performance_entries,  \* SleepAnalyzer.performance_entries
    now,                  \* the day the clock shows (datetime.now())
    ret,                  \* the last call on the analyzer: operation,
                          \* collections, day of the call and result
    data_source,          \* SleepAnalyticsPlatform.data_source
    sleep_file,           \* the lines of data/sleep_data.txt
    performance_file,     \* the lines of data/performance_data.txt
    sleep_excel_file,     \* the rows of data/excel/sleep_data.xlsx
    performance_excel_file  \* the rows of data/excel/performance_data.xlsx

\* What is kept outside the analyzer.
storage == <<data_source, sleep_file, performance_file,
             sleep_excel_file, performance_excel_file>>

vars == <<dream_content, da_themes, eda_themes,
          sleep_entries, performance_entries, now, ret, storage>>

\* Nothing is stored.
NoStorage ==
    /\ data_source = "text"
    /\ sleep_file = <<>>
    /\ performance_file = <<>>
    /\ sleep_excel_file = <<>>
    /\ performance_excel_file = <<>>

\* No call has returned yet.
Pending == [called |-> FALSE, raised |-> FALSE, value |-> <<>>]

NoCall ==
    [op |-> "none", sleep_entries |-> <<>>, performance_entries |-> <<>>,
     now |-> 0, calls |-> 0, result |-> Pending]

\* The record of a call of operation op in the current state: the collections
\* it was given, the day of the call, the result, and whether it is the first
\* or a later one of a run of calls of op on the same collections.
Call(op, result) ==
    [op                  |-> op,
     sleep_entries       |-> sleep_entries,
     performance_entries |-> performance_entries,
     now                 |-> now,
     calls               |-> IF /\ ret.op = op
                                /\ ret.sleep_entries = sleep_entries
                                /\ ret.performance_entries = performance_entries
                             THEN 2 ELSE 1,
     result              |-> result]

\* ------------------------------------------------------------------------
\* The theme matcher applied to one text
\* ------------------------------------------------------------------------

InitThemes ==
    /\ dream_content \in Texts
    /\ da_themes = Pending
    /\ eda_themes = Pending
    /\ sleep_entries = <<>>
    /\ performance_entries = <<>>
    /\ now = 49
    /\ NoStorage
    /\ ret = NoCall

DA_AnalyzeThemes ==
    /\ ~da_themes.called
    /\ da_themes' = DA_analyze_dream_themes(dream_content)
    /\ UNCHANGED <<storage, dream_content, eda_themes,
                   sleep_entries, performance_entries, now, ret>>

EDA_AnalyzeThemes ==
    /\ ~eda_themes.called
    /\ eda_themes' = EDA_analyze_dream_themes(dream_content)
    /\ UNCHANGED <<storage, dream_content, da_themes,
                   sleep_entries, performance_entries, now, ret>>

NextThemes == DA_AnalyzeThemes \/ EDA_AnalyzeThemes

SpecThemes == InitThemes /\ [][NextThemes]_vars

\* ------------------------------------------------------------------------
\* The analyzer with its collections
\* ------------------------------------------------------------------------

\* SleepAnalyzer.__init__ followed by the load of the stored data.
Init ==
    /\ dream_content = <<>>
    /\ da_themes = Pending
    /\ eda_themes = Pending
    /\ sleep_entries = <<>>
    /\ performance_entries \in PerformanceLoads
    /\ now = 49
    /\ NoStorage
    /\ ret = NoCall

\* An add that puts the entry in the place of those of its date.
add_sleep_entry_LastWriteWins(sleep_entry) ==
    /\ sleep_entries' =
          Append(Filter(sleep_entries, LAMBDA e : e.date # sleep_entry.date),
                 sleep_entry)
    /\ ret' = [op                  |-> "add_sleep_entry",
               sleep_entries       |-> sleep_entries',
               performance_entries |-> performance_entries,
               now                 |-> now,
               calls               |-> 1,
               result              |-> Return(NoneResult)]
    /\ UNCHANGED <<dream_content, da_themes, eda_themes,
                   performance_entries, now>>

\* sleep_entry.SleepAnalyzer.add_sleep_entry
add_sleep_entry(sleep_entry) ==
    /\ sleep_entries' = IF isinstance_SleepEntry(sleep_entry)
                        THEN Append(sleep_entries, sleep_entry)
                        ELSE sleep_entries
    /\ ret' = [op                  |-> "add_sleep_entry",
               sleep_entries       |-> sleep_entries',
               performance_entries |-> performance_entries,
               now                 |-> now,
               calls               |-> 1,
               result              |-> IF isinstance_SleepEntry(sleep_entry)
                                       THEN Return(NoneResult)
                                       ELSE Raise("TypeError")]
    /\ UNCHANGED <<dream_content, da_themes, eda_themes,
                   performance_entries, now>>

\* sleep_entry.SleepAnalyzer.add_performance_entry
add_performance_entry(performance_entry) ==
    /\ performance_entries' =
          IF isinstance_PerformanceEntry(performance_entry)
          THEN Append(performance_entries, performance_entry)
          ELSE performance_entries
    /\ ret' = [op                  |-> "add_performance_entry",
               sleep_entries       |-> sleep_entries,
               performance_entries |-> performance_entries',
               now                 |-> now,
               calls               |-> 1,
               result              |->
                   IF isinstance_PerformanceEntry(performance_entry)
                   THEN Return(NoneResult)
                   ELSE Raise("TypeError")]
    /\ UNCHANGED <<dream_content, da_themes, eda_themes,
                   sleep_entries, now>>

\* Time passes.
Tick ==
    /\ \E day \in ClockDays : day > now /\ now' = day
    /\ UNCHANGED <<storage, dream_content, da_themes, eda_themes,
                   sleep_entries, performance_entries, ret>>

\* An aggregation that filters the caller's list in place.
DA_AnalyzePatterns_InPlace ==
    /\ ret' = Call("DA_analyze_dream_patterns",
                   DA_analyze_dream_patterns(sleep_entries))
    /\ sleep_entries' = Filter(sleep_entries, DA_qualifies)
    /\ UNCHANGED <<storage, dream_content, da_themes, eda_themes,
                   performance_entries, now>>

\* dream_analyzer.analyze_dream_patterns(self.sleep_analyzer.sleep_entries)
DA_AnalyzePatterns ==
    /\ ret' = Call("DA_analyze_dream_patterns",
                   DA_analyze_dream_patterns(sleep_entries))
    /\ UNCHANGED <<storage, dream_content, da_themes, eda_themes,
                   sleep_entries, performance_entries, now>>

\* enhanced analyze_dream_patterns(sleep_analyzer.sleep_entries), days_back
\* left at its default
EDA_AnalyzePatterns ==
    /\ ret' = Call("EDA_analyze_dream_patterns",
                   EDA_analyze_dream_patterns(sleep_entries,
                                              DefaultDaysBack, now))
    /\ UNCHANGED <<storage, dream_content, da_themes, eda_themes,
                   sleep_entries, performance_entries, now>>

\* dream_analyzer.analyze_emotional_dream_correlation(sleep_entries)
DA_AnalyzeEmotions ==
    /\ ret' = Call("DA_analyze_emotional_dream_correlation",
                   DA_analyze_emotional_dream_correlation(sleep_entries))
    /\ UNCHANGED <<storage, dream_content, da_themes, eda_themes,
                   sleep_entries, performance_entries, now>>

\* sleep_analyzer.analyze_correlations()
AnalyzeCorrelations ==
    /\ ret' = Call("analyze_correlations",
                   analyze_correlations(sleep_entries, performance_entries))
    /\ UNCHANGED <<storage, dream_content, da_themes, eda_themes,
                   sleep_entries, performance_entries, now>>

\* An entry is recorded.
RecordSleep ==
    /\ Len(sleep_entries) < MaxEntries
    /\ \E i \in 1..Len(SampleSleepEntries) :
          add_sleep_entry(SampleSleepEntries[i])
    /\ UNCHANGED storage

Next ==
    \/ RecordSleep
    \/ Tick
    \/ DA_AnalyzePatterns
    \/ EDA_AnalyzePatterns
    \/ DA_AnalyzeEmotions
    \/ AnalyzeCorrelations

Spec == Init /\ [][Next]_vars

\* ------------------------------------------------------------------------
\* Many dream nights: the collection grows to MaxNights entries, each one of
\* three dreams (Flying; Water; Flying and Animals)
\* ------------------------------------------------------------------------

DreamNights ==
    << SampleSleepEntries[1], SampleSleepEntries[2], SampleSleepEntries[5] >>

InitNights ==
    /\ dream_content = <<>>
    /\ da_themes = Pending
    /\ eda_themes = Pending
    /\ sleep_entries = <<>>
    /\ performance_entries = <<>>
    /\ now = 49
    /\ NoStorage
    /\ ret = NoCall

RecordNight ==
    /\ Len(sleep_entries) < MaxNights
    /\ \E i \in 1..Len(DreamNights) : add_sleep_entry(DreamNights[i])
    /\ UNCHANGED storage

NextNights == RecordNight \/ DA_AnalyzePatterns

SpecNights == InitNights /\ [][NextNights]_vars

\* ------------------------------------------------------------------------
\* The statistics helpers called with one argument
\* ------------------------------------------------------------------------

InitStats ==
    /\ dream_content = <<>>
    /\ da_themes = Pending
    /\ eda_themes = Pending
    /\ sleep_entries = <<>>
    /\ performance_entries = <<>>
    /\ now = 49
    /\ NoStorage
    /\ \E argument \in StatArguments :
          ret = [op |-> "none", argument |-> argument, result |-> Pending]

\* A helper is called with the argument, unless it has just been.
UtilCall(op, result) ==
    /\ ret.op # op
    /\ ret' = [op |-> op, argument |-> ret.argument, result |-> result]
    /\ UNCHANGED <<storage, dream_content, da_themes, eda_themes,
                   sleep_entries, performance_entries, now>>

CalculateTrend == UtilCall("calculate_trend", calculate_trend(ret.argument))

GetStatisticsSummary ==
    UtilCall("get_statistics_summary", get_statistics_summary(ret.argument))

SafeAverage == UtilCall("safe_average", safe_average(ret.argument))

NextStats == CalculateTrend \/ GetStatisticsSummary \/ SafeAverage

SpecStats == InitStats /\ [][NextStats]_vars
\* ------------------------------------------------------------------------
\* One performance entry built from four ratings
\* ------------------------------------------------------------------------

InitScore ==
    /\ dream_content = <<>>
    /\ da_themes = Pending
    /\ eda_themes = Pending
    /\ sleep_entries = <<>>
    /\ performance_entries = <<>>
    /\ now = 49
    /\ NoStorage
    /\ ret = NoCall

\* PerformanceEntry(date, productivity, mood, energy_level, stress_level) as
\* record_performance_data builds it, added to the empty collection
NewPerformanceEntry ==
    /\ performance_entries = <<>>
    /\ \E productivity \in Ratings, mood \in Ratings,
          energy_level \in Ratings, stress_level \in Ratings :
          performance_entries' =
              << PerformanceEntry(Date15, productivity, mood,
                                  energy_level, stress_level) >>
    /\ UNCHANGED <<storage, dream_content, da_themes, eda_themes,
                   sleep_entries, now, ret>>

NextScore == NewPerformanceEntry

SpecScore == InitScore /\ [][NextScore]_vars
\* ------------------------------------------------------------------------
\* One sleep entry built from a bedtime and a wake time
\* ------------------------------------------------------------------------

\* The hour and minute fields typed at the prompts, which are not validated:
\* in range, out of range, and negative.
HourFields ==
    { <<"2","3">>, <<"0","7">>, <<"7">>, <<"2","5">>, <<"5","0">>,
      <<"-","5">> }

MinuteFields ==
    { <<"0","0">>, <<"1","5">>, <<"3","0">>, <<"4","5">>, <<"7","5">> }

\* Texts that are not "hour:minute": nothing, no colon, a time with seconds
\* (a spreadsheet time cell as text), a missing field, letters; and a time
\* with blanks around its fields, which int() accepts.
OtherTimes ==
    { <<>>,
      <<"2","3","0","0">>,
      <<"2","2",":","3","0",":","0","0">>,
      <<"7",":">>,
      <<"a","b",":","c","d">>,
      <<" ","7",":"," ","3","0">> }

TimeStrings ==
    {hour \o <<":">> \o minute : hour \in HourFields, minute \in MinuteFields}
        \cup OtherTimes

InitDuration ==
    /\ dream_content = <<>>
    /\ da_themes = Pending
    /\ eda_themes = Pending
    /\ sleep_entries = <<>>
    /\ performance_entries = <<>>
    /\ now = 49
    /\ NoStorage
    /\ ret = NoCall

\* SleepEntry(date, bedtime, wake_time, sleep_quality) as record_sleep_data
\* builds it from the two texts typed, added to the empty collection
NewSleepEntry ==
    /\ sleep_entries = <<>>
    /\ \E bedtime \in TimeStrings, wake_time \in TimeStrings :
          sleep_entries' =
              << SleepEntry(Date15, bedtime, wake_time, 7, FALSE,
                            <<>>, <<>>) >>
    /\ UNCHANGED <<storage, dream_content, da_themes, eda_themes,
                   performance_entries, now, ret>>

NextDuration == NewSleepEntry

SpecDuration == InitDuration /\ [][NextDuration]_vars
\* ------------------------------------------------------------------------
\* The platform with its stored data: recording, loading a workbook,
\* switching the data source
\* ------------------------------------------------------------------------

\* The entries typed at the terminal: two nights for 2024-01-15, and the
\* performance of that day.
TypedSleepEntries ==
    { SleepEntry(Date15, Bedtime, WakeTime, 8, FALSE, <<>>, <<>>),
      SleepEntry(Date15, Bedtime, WakeTime, 3, TRUE, CatFlyDream,
                 <<Peaceful>>) }

TypedPerformanceEntries ==
    { PerformanceEntry(Date15, 8, 7, 9, 3) }

\* The sheet Sleep_Data as found at start-up: without rows, or filled in by
\* hand with a row whose quality cell is empty and a row with an emotion.
SleepSheets ==
    { <<>>,
      << [cells   |-> [Date |-> Date17, Bedtime |-> Bedtime,
                       Wake_Time |-> WakeTime, Sleep_Quality |-> 0,
                       Had_Dreams |-> FALSE, Dream_Content |-> <<>>,
                       Dream_Emotions |-> <<>>],
          missing |-> {"Sleep_Quality", "Dream_Content", "Dream_Emotions"}],
         [cells   |-> [Date |-> Date15, Bedtime |-> Bedtime,
                       Wake_Time |-> WakeTime, Sleep_Quality |-> 6,
                       Had_Dreams |-> TRUE, Dream_Content |-> CatFlyDream,
                       Dream_Emotions |-> PeacefulTyped],
          missing |-> {}] >> }

\* The sheet Performance_Data as found at start-up: a row whose mood cell is
\* empty.
PerformanceSheet ==
    << [cells   |-> [Date |-> Date15, Productivity |-> 7, Mood |-> 0,
                     Energy_Level |-> 6, Stress_Level |-> 4],
        missing |-> {"Mood"}] >>

\* data/sleep_data.txt as found at start-up: the line
\* "2024-01-15|23:00|07:00|11|False||" and a line that is not an entry.
SleepTextFile ==
    << join("|", << Date15, Bedtime, WakeTime, <<"1","1">>,
                    <<"F","a","l","s","e">>, <<>>, <<>> >>),
       join("|", << Date17, Bedtime, WakeTime >>) >>

\* SleepAnalyticsPlatform.__init__: _load_initial_data reads the workbooks
\* when one of them has a row with a date, and the text files otherwise.
InitStore ==
    /\ dream_content = <<>>
    /\ da_themes = Pending
    /\ eda_themes = Pending
    /\ now = 49
    /\ ret = NoCall
    /\ sleep_file = SleepTextFile
    /\ performance_file = <<>>
    /\ sleep_excel_file \in SleepSheets
    /\ performance_excel_file = PerformanceSheet
    /\ IF entries_count(sleep_excel_file) > 0
          \/ entries_count(performance_excel_file) > 0
       THEN /\ data_source = "excel"
            /\ sleep_entries = load_sleep_data_from_excel(sleep_excel_file)
            /\ performance_entries =
                  load_performance_data_from_excel(performance_excel_file)
       ELSE /\ data_source = "text"
            /\ sleep_entries = load_sleep_data(sleep_file)
            /\ performance_entries = load_performance_data(performance_file)

\* main.record_sleep_data with the entry built from the input
record_sleep_data(sleep_entry) ==
    /\ add_sleep_entry(sleep_entry)
    /\ IF data_source = "excel"
       THEN /\ sleep_excel_file' =
                  add_single_sleep_entry_to_excel(sleep_excel_file,
                                                  sleep_entry)
            /\ UNCHANGED sleep_file
       ELSE /\ sleep_file' = save_sleep_data(sleep_entries')
            /\ UNCHANGED sleep_excel_file
    /\ UNCHANGED <<data_source, performance_file, performance_excel_file>>

\* main.record_performance_data with the entry built from the input
record_performance_data(performance_entry) ==
    /\ add_performance_entry(performance_entry)
    /\ IF data_source = "excel"
       THEN /\ performance_excel_file' =
                  add_single_performance_entry_to_excel(
                      performance_excel_file, performance_entry)
            /\ UNCHANGED performance_file
       ELSE /\ performance_file' = save_performance_data(performance_entries')
            /\ UNCHANGED performance_excel_file
    /\ UNCHANGED <<data_source, sleep_file, sleep_excel_file>>

\* The collection after the part of load_data_from_excel that deals with it:
\* an empty sheet changes nothing, an empty collection takes the loaded
\* entries, and otherwise the answer to "Replace existing data?" decides.
loaded_collection(existing, new_entries, replace) ==
    IF new_entries = <<>> THEN existing
    ELSE IF existing = <<>> THEN new_entries
    ELSE IF replace THEN new_entries
    ELSE merge_new_entries(existing, new_entries)

\* main.load_data_from_excel; the workbooks exist once the platform is built.
load_data_from_excel(load_choice, replace_sleep, replace_performance) ==
    /\ sleep_entries' =
          IF load_choice \in {1, 3}
          THEN loaded_collection(
                   sleep_entries,
                   load_sleep_data_from_excel(sleep_excel_file),
                   replace_sleep)
          ELSE sleep_entries
    /\ performance_entries' =
          IF load_choice \in {2, 3}
          THEN loaded_collection(
                   performance_entries,
                   load_performance_data_from_excel(performance_excel_file),
                   replace_performance)
          ELSE performance_entries
    /\ data_source' = IF sleep_entries' # <<>> \/ performance_entries' # <<>>
                      THEN "excel" ELSE data_source
    /\ ret' = NoCall
    /\ UNCHANGED <<dream_content, da_themes, eda_themes, now,
                   sleep_file, performance_file,
                   sleep_excel_file, performance_excel_file>>

\* main.switch_data_source: nothing happens when the source chosen is the
\* current one; otherwise the collections are saved to the current source if
\* asked for, and both are read from the new one.
switch_data_source(new_source, save_choice) ==
    /\ new_source # data_source
    /\ data_source' = new_source
    /\ LET save == save_choice /\ (sleep_entries # <<>>
                                   \/ performance_entries # <<>>)
           save_sleep == save /\ sleep_entries # <<>>
           save_performance == save /\ performance_entries # <<>>
       IN  /\ sleep_file' =
                 IF save_sleep /\ data_source = "text"
                 THEN save_sleep_data(sleep_entries) ELSE sleep_file
           /\ sleep_excel_file' =
                 IF save_sleep /\ data_source = "excel"
                 THEN save_sleep_data_to_excel(sleep_entries)
                 ELSE sleep_excel_file
           /\ performance_file' =
                 IF save_performance /\ data_source = "text"
                 THEN save_performance_data(performance_entries)
                 ELSE performance_file
           /\ performance_excel_file' =
                 IF save_performance /\ data_source = "excel"
                 THEN save_performance_data_to_excel(performance_entries)
                 ELSE performance_excel_file
    /\ IF new_source = "excel"
       THEN /\ sleep_entries' = load_sleep_data_from_excel(sleep_excel_file')
            /\ performance_entries' =
                  load_performance_data_from_excel(performance_excel_file')
       ELSE /\ sleep_entries' = load_sleep_data(sleep_file')
            /\ performance_entries' = load_performance_data(performance_file')
    /\ ret' = NoCall
    /\ UNCHANGED <<dream_content, da_themes, eda_themes, now>>

RecordSleepData ==
    /\ Len(sleep_entries) + Len(performance_entries) < MaxStored
    /\ \E sleep_entry \in TypedSleepEntries : record_sleep_data(sleep_entry)

RecordPerformanceData ==
    /\ Len(sleep_entries) + Len(performance_entries) < MaxStored
    /\ \E performance_entry \in TypedPerformanceEntries :
          record_performance_data(performance_entry)

LoadDataFromExcel ==
    \E load_choice \in 1..3, replace_sleep \in BOOLEAN,
       replace_performance \in BOOLEAN :
        load_data_from_excel(load_choice, replace_sleep, replace_performance)

SwitchDataSource ==
    \E new_source \in {"text", "excel"}, save_choice \in BOOLEAN :
        switch_data_source(new_source, save_choice)

NextStore ==
    \/ RecordSleepData
    \/ RecordPerformanceData
    \/ LoadDataFromExcel
    \/ SwitchDataSource

SpecStore == InitStore /\ [][NextStore]_vars
\* ------------------------------------------------------------------------
\* The statistics of the dream journal: entries are recorded and the
\* statistics are asked for
\* ------------------------------------------------------------------------

\* "Peaceful": the label with a capital letter.
PeacefulCapital == <<"P","e","a","c","e","f","u","l">>

\* The entries of the journal: those of the scenario and a dream whose
\* emotions are typed with a capital letter.
JournalSleepEntries ==
    SampleSleepEntries
    \o << SleepEntry(Date16, Bedtime, WakeTime, 6, TRUE, WaterDream,
                     <<PeacefulCapital, Happy>>) >>

InitJournal ==
    /\ dream_content = <<>>
    /\ da_themes = Pending
    /\ eda_themes = Pending
    /\ sleep_entries = <<>>
    /\ performance_entries = <<>>
    /\ now = 49
    /\ NoStorage
    /\ ret = NoCall

RecordJournalEntry ==
    /\ Len(sleep_entries) < MaxEntries
    /\ \E i \in DOMAIN JournalSleepEntries :
          add_sleep_entry(JournalSleepEntries[i])
    /\ UNCHANGED storage

\* A statistic of the collection is asked for.
JournalCall(op, result) ==
    /\ ret' = Call(op, result)
    /\ UNCHANGED <<storage, dream_content, da_themes, eda_themes,
                   sleep_entries, performance_entries, now>>

\* sleep_analyzer.get_dream_frequency()
GetDreamFrequency ==
    JournalCall("get_dream_frequency",
                Return(get_dream_frequency(sleep_entries)))

\* sleep_analyzer.get_most_common_dream_emotions()
GetMostCommonDreamEmotions ==
    JournalCall("get_most_common_dream_emotions",
                Return(get_most_common_dream_emotions(sleep_entries)))

\* dream_journal.get_dream_statistics(sleep_entries), as main.py calls it
DJ_GetDreamStatistics ==
    JournalCall("DJ_get_dream_statistics",
                DJ_get_dream_statistics(sleep_entries))

\* enhanced_dream_analysis's get_dream_statistics(sleep_entries), as the
\* reports call it
EDA_GetDreamStatistics ==
    JournalCall("EDA_get_dream_statistics",
                EDA_get_dream_statistics(sleep_entries))

NextJournal ==
    \/ RecordJournalEntry
    \/ GetDreamFrequency
    \/ GetMostCommonDreamEmotions
    \/ DJ_GetDreamStatistics
    \/ EDA_GetDreamStatistics
    \/ DA_AnalyzePatterns

SpecJournal == InitJournal /\ [][NextJournal]_vars

\* ------------------------------------------------------------------------
\* Nights with many themes: the most common themes of the two aggregators
\* ------------------------------------------------------------------------

RecordThemeNight ==
    /\ Len(sleep_entries) < MaxEntries
    /\ \E i \in DOMAIN ThemeNights : add_sleep_entry(ThemeNights[i])
    /\ UNCHANGED storage

NextCommon ==
    \/ RecordThemeNight
    \/ DA_AnalyzePatterns
    \/ EDA_AnalyzePatterns

SpecCommon == InitJournal /\ [][NextCommon]_vars

\* ------------------------------------------------------------------------
\* The window of the last days_back days, over dates as they are typed
\* ------------------------------------------------------------------------

\* Dates typed at the prompt of record_sleep_data, which stores the text as
\* it is: 2023-12-30, 2024-02-10, and 2024-01-05 without the zeros.
Date1230 == <<"2","0","2","3","-","1","2","-","3","0">>

Date0210 == <<"2","0","2","4","-","0","2","-","1","0">>

DateJan5 == <<"2","0","2","4","-","1","-","5">>

WindowNights ==
    << SleepEntry(Date15, Bedtime, WakeTime, 7, TRUE, CatFlyDream, <<>>),
       SleepEntry(Date1230, Bedtime, WakeTime, 6, TRUE, CatFlyDream, <<>>),
       SleepEntry(Date0210, Bedtime, WakeTime, 8, TRUE, CatFlyDream, <<>>),
       SleepEntry(DateJan5, Bedtime, WakeTime, 5, TRUE, CatFlyDream, <<>>),
       SleepEntry(Date16, Bedtime, WakeTime, 4, FALSE, <<>>, <<>>) >>

\* The windows asked for: a week, and the default of 30 days.
WindowDays == {7, DefaultDaysBack}

RecordWindowNight ==
    /\ Len(sleep_entries) < MaxEntries
    /\ \E i \in DOMAIN WindowNights : add_sleep_entry(WindowNights[i])
    /\ UNCHANGED storage

\* analyze_dream_patterns(sleep_entries, days_back)
EDA_AnalyzeWindow ==
    /\ \E days_back \in WindowDays :
          ret' = [days_back |-> days_back]
                 @@ Call("EDA_analyze_dream_patterns",
                         EDA_analyze_dream_patterns(sleep_entries,
                                                    days_back, now))
    /\ UNCHANGED <<storage, dream_content, da_themes, eda_themes,
                   sleep_entries, performance_entries, now>>

NextWindow == RecordWindowNight \/ Tick \/ EDA_AnalyzeWindow

SpecWindow == InitJournal /\ [][NextWindow]_vars

\* ------------------------------------------------------------------------
\* The report: the platform starts with the data of its workbooks, entries
\* are recorded and the sections of the report are generated
\* ------------------------------------------------------------------------

\* Fourteen good nights on a row, a dream on every other one.
FortnightNights ==
    [i \in 1..14 |->
        SleepEntry(strftime(i), Bedtime, WakeTime, 8, i % 2 = 1,
                   IF i % 2 = 1 THEN WaterDream ELSE <<>>, <<>>)]

\* Twenty-five days with every rating at 7, the stress of one of them at 8.
MonthLoad ==
    [i \in 1..25 |->
        PerformanceEntry(strftime(i), 7, 7, 7, IF i = 25 THEN 8 ELSE 7)]

\* The sheet Sleep_Data at start-up: without rows, with the fourteen nights,
\* or filled in by hand with a row whose quality cell is empty.
ReportSleepSheets ==
    { <<>>, save_sleep_data_to_excel(FortnightNights) }
    \cup (SleepSheets \ {<<>>})

\* The sheet Performance_Data at start-up: without rows, or with the
\* twenty-five days.
ReportPerformanceSheets ==
    { <<>>, save_performance_data_to_excel(MonthLoad) }

\* The nights typed at the terminal: a good one with a dream, and a short
\* and poor one.
ReportNights ==
    { SleepEntry(Date15, Bedtime, WakeTime, 8, TRUE, WaterDream, <<>>),
      SleepEntry(Date16, Bedtime, <<"0","4",":","0","0">>, 4, FALSE,
                 <<>>, <<>>) }

\* The days typed at the terminal: an even one, a stressful one, and a tired
\* and unproductive one.
ReportDays ==
    { PerformanceEntry(Date15, 7, 7, 7, 7),
      PerformanceEntry(Date16, 8, 8, 7, 9),
      PerformanceEntry(Date17, 5, 10, 4, 5) }

\* SleepAnalyticsPlatform.__init__ with the workbooks found: the text files
\* do not exist.
InitReport ==
    /\ dream_content = <<>>
    /\ da_themes = Pending
    /\ eda_themes = Pending
    /\ now = 49
    /\ ret = NoCall
    /\ sleep_file = <<>>
    /\ performance_file = <<>>
    /\ sleep_excel_file \in ReportSleepSheets
    /\ performance_excel_file \in ReportPerformanceSheets
    /\ data_source = IF entries_count(sleep_excel_file) > 0
                        \/ entries_count(performance_excel_file) > 0
                     THEN "excel" ELSE "text"
    /\ sleep_entries = load_sleep_data_from_excel(sleep_excel_file)
    /\ performance_entries =
          load_performance_data_from_excel(performance_excel_file)

RecordReportNight ==
    /\ Len(sleep_entries) < MaxEntries
    /\ \E sleep_entry \in ReportNights : record_sleep_data(sleep_entry)

RecordReportDay ==
    /\ Len(performance_entries) < MaxEntries
    /\ \E performance_entry \in ReportDays :
          record_performance_data(performance_entry)

\* report_generator._generate_recommendations(sleep_analyzer)
GenerateRecommendations ==
    JournalCall("generate_recommendations",
                Return(generate_recommendations(sleep_entries,
                                                performance_entries)))

\* report_generator._generate_sleep_analysis(sleep_analyzer)
GenerateSleepAnalysis ==
    JournalCall("generate_sleep_analysis",
                Return(generate_sleep_analysis(sleep_entries)))

NextReport ==
    \/ RecordReportNight
    \/ RecordReportDay
    \/ GenerateRecommendations
    \/ GenerateSleepAnalysis

SpecReport == InitReport /\ [][NextReport]_vars
\* ------------------------------------------------------------------------
\* The workbook of the nights: the platform starts in Excel mode, nights are
\* recorded, the data source is switched with a save, and the program is
\* left
\* ------------------------------------------------------------------------

\* The nights typed at the terminal: two for 2024-01-15, and one for each of
\* 2024-01-16 and 2024-01-18.
ExcelNights ==
    TypedSleepEntries
    \cup { SleepEntry(Date16, Bedtime, WakeTime, 4, FALSE, <<>>, <<>>),
           SleepEntry(Date18, Bedtime, WakeTime, 7, TRUE, WaterDream,
                      <<Joyful>>) }

\* The sheet Sleep_Data at start-up, one row for a date: the night of
\* 2024-01-17, or the sheet filled in by hand.
ExcelSleepSheets ==
    { save_sleep_data_to_excel(
          << SleepEntry(Date17, Bedtime, WakeTime, 7, FALSE, <<>>, <<>>) >>) }
    \cup (SleepSheets \ {<<>>})

\* SleepAnalyticsPlatform.__init__ with a sheet of nights found: there are
\* no performance data and no text files.
InitExcel ==
    /\ dream_content = <<>>
    /\ da_themes = Pending
    /\ eda_themes = Pending
    /\ now = 49
    /\ ret = NoCall
    /\ sleep_file = <<>>
    /\ performance_file = <<>>
    /\ sleep_excel_file \in ExcelSleepSheets
    /\ performance_excel_file = <<>>
    /\ data_source = "excel"
    /\ sleep_entries = load_sleep_data_from_excel(sleep_excel_file)
    /\ performance_entries =
          load_performance_data_from_excel(performance_excel_file)

\* main.exit_program: the collections that are not empty are saved to the
\* current source.
exit_program ==
    /\ sleep_file' =
          IF data_source # "excel" /\ sleep_entries # <<>>
          THEN save_sleep_data(sleep_entries) ELSE sleep_file
    /\ sleep_excel_file' =
          IF data_source = "excel" /\ sleep_entries # <<>>
          THEN save_sleep_data_to_excel(sleep_entries)
          ELSE sleep_excel_file
    /\ performance_file' =
          IF data_source # "excel" /\ performance_entries # <<>>
          THEN save_performance_data(performance_entries)
          ELSE performance_file
    /\ performance_excel_file' =
          IF data_source = "excel" /\ performance_entries # <<>>
          THEN save_performance_data_to_excel(performance_entries)
          ELSE performance_excel_file
    /\ ret' = Call("exit_program", Return(NoneResult))
    /\ UNCHANGED <<dream_content, da_themes, eda_themes, now, data_source,
                   sleep_entries, performance_entries>>

\* The menu loop runs until exit_program has returned.
Running == ret.op # "exit_program"

\* A night is recorded in Excel mode.
RecordExcelNight ==
    /\ Running
    /\ data_source = "excel"
    /\ Len(sleep_entries) < MaxEntries
    /\ \E sleep_entry \in ExcelNights : record_sleep_data(sleep_entry)

\* The data source is switched and the current data are saved first.
SwitchWithSave ==
    /\ Running
    /\ \E new_source \in {"text", "excel"} :
          switch_data_source(new_source, TRUE)

ExitProgram ==
    /\ Running
    /\ exit_program

NextExcel ==
    \/ RecordExcelNight
    \/ SwitchWithSave
    \/ ExitProgram

SpecExcel == InitExcel /\ [][NextExcel]_vars
\* ------------------------------------------------------------------------
\* The text file of the nights: nights are recorded in text mode and the
\* platform is started again
\* ------------------------------------------------------------------------

\* "cat | fly": a dream told with a vertical bar.
BarDream == <<"c","a","t"," ","|"," ","f","l","y">>

\* " 2024-01-16": a date typed after a space.
SpacedDate16 == <<" ">> \o Date16

\* The nights typed at the terminal: a dream with emotions, a night without
\* a dream, a dream told with a vertical bar, and a date typed after a space.
TextNights ==
    { SleepEntry(Date15, Bedtime, WakeTime, 8, TRUE, CatFlyDream,
                 <<Peaceful, Happy>>),
      SleepEntry(Date17, Bedtime, WakeTime, 4, FALSE, <<>>, <<>>),
      SleepEntry(Date18, Bedtime, WakeTime, 6, TRUE, BarDream, <<Joyful>>),
      SleepEntry(SpacedDate16, Bedtime, WakeTime, 7, FALSE, <<>>, <<>>) }

\* A night is recorded in text mode.
RecordTextNight ==
    /\ Len(sleep_entries) < MaxEntries
    /\ \E sleep_entry \in TextNights : record_sleep_data(sleep_entry)

\* The program is started again: _load_initial_data finds no workbook rows
\* and reads the text files.
LoadInitialData ==
    /\ entries_count(sleep_excel_file) = 0
    /\ entries_count(performance_excel_file) = 0
    /\ sleep_entries' = load_sleep_data(sleep_file)
    /\ performance_entries' = load_performance_data(performance_file)
    /\ data_source' = "text"
    /\ ret' = Call("load_sleep_data", Return(load_sleep_data(sleep_file)))
    /\ UNCHANGED <<dream_content, da_themes, eda_themes, now, sleep_file,
                   performance_file, sleep_excel_file,
                   performance_excel_file>>

NextText ==
    \/ RecordTextNight
    \/ LoadInitialData

SpecText == InitJournal /\ [][NextText]_vars
\* ------------------------------------------------------------------------
\* Properties of analyze_dream_themes (specification SpecThemes)
\* ------------------------------------------------------------------------

\* The number of whole-word occurrences of keyword in text, counted without
\* scanning: the positions where the keyword stands with no word character
\* next to it on either side.
WholeWordOccurrences(keyword, text) ==
    Cardinality({p \in 1..(Len(text) - Len(keyword) + 1) :
        /\ text[p] = keyword[1]
        /\ LET q == p + Len(keyword) - 1
           IN  /\ SubSeq(text, p, q) = keyword
               /\ (p = 1 \/ ~IsWordChar(text[p - 1]))
               /\ (q = Len(text) \/ ~IsWordChar(text[q + 1]))})

RECURSIVE SumOccurrences(_, _, _)
SumOccurrences(keywords, text, k) ==
    IF k = 0 THEN 0
    ELSE SumOccurrences(keywords, text, k - 1)
            + WholeWordOccurrences(keywords[k], text)

\* The expected score of every theme of a catalog for a text.
ExpectedScores(catalog, text) ==
    [k \in 1..Len(catalog) |->
        IF text = None THEN 0
        ELSE SumOccurrences(catalog[k].keywords, lower(text),
                            Len(catalog[k].keywords))]

\* The expected scores for the texts of the model, by text.
DA_expected == [t \in Texts |-> ExpectedScores(DA_dream_themes, t)]

EDA_expected == [t \in Texts |-> ExpectedScores(EDA_dream_themes, t)]

\* The position of a theme in a catalog.
CatalogIndex(catalog, theme) ==
    CHOOSE k \in 1..Len(catalog) : catalog[k].theme = theme

ScoresAreOccurrenceCounts(catalog, expected_scores, result) ==
    result.called =>
        /\ ~result.raised
        /\ \A i, j \in 1..Len(result.value) :
              result.value[i].theme = result.value[j].theme => i = j
        /\ \A k \in 1..Len(catalog) :
              LET expected == expected_scores[k]
                  listed   == {i \in 1..Len(result.value) :
                                  result.value[i].theme = catalog[k].theme}
              IN  /\ (expected >= 1) <=> (listed # {})
                  /\ \A i \in listed :
                        /\ result.value[i].score = expected
                        /\ Len(result.value[i].keywords) = expected
                        /\ \A m \in 1..expected :
                              \E n \in 1..Len(catalog[k].keywords) :
                                 result.value[i].keywords[m]
                                    = catalog[k].keywords[n]

\* C1: for every text and every catalog theme the score is the number of
\* whole-word occurrences of the theme's keywords in the lower-cased text;
\* the theme is in the result iff that number is at least 1, and its
\* matched-keyword list has exactly score elements.
C1_ScoreIsWholeWordCount ==
    /\ ScoresAreOccurrenceCounts(DA_dream_themes, DA_expected[dream_content],
                                 da_themes)
    /\ ScoresAreOccurrenceCounts(EDA_dream_themes, EDA_expected[dream_content],
                                 eda_themes)

\* "cat cat cat fly Category": Animals scores 3 in both analyzers, the
\* "Cat" inside "Category" is not counted.
C1_Witness ==
    /\ dream_content = Vocabulary[6] \o Vocabulary[2] \o Vocabulary[3]
    /\ da_themes.called /\ eda_themes.called
    /\ \E i \in 1..Len(da_themes.value) :
          da_themes.value[i].theme = "Animals" /\ da_themes.value[i].score = 3
    /\ \E i \in 1..Len(eda_themes.value) :
          eda_themes.value[i].theme = "Animals" /\ eda_themes.value[i].score = 3

NoKeywordOccurs(expected_scores) ==
    \A k \in 1..Len(expected_scores) : expected_scores[k] = 0

\* C2: when the text holds no whole-word occurrence of any catalog keyword
\* (the empty string and None included) the result is the empty list and
\* no exception is raised.
C2_NoKeywordGivesEmptyList ==
    /\ (da_themes.called /\ NoKeywordOccurs(DA_expected[dream_content]))
          => (~da_themes.raised /\ da_themes.value = <<>>)
    /\ (eda_themes.called /\ NoKeywordOccurs(EDA_expected[dream_content]))
          => (~eda_themes.raised /\ eda_themes.value = <<>>)

C2_Witness ==
    /\ dream_content = None
    /\ da_themes.called /\ eda_themes.called
    /\ da_themes.value = <<>> /\ eda_themes.value = <<>>

ConfidenceInRange(result) ==
    (result.called /\ ~result.raised) =>
        \A i \in 1..Len(result.value) :
            /\ result.value[i].confidence.den > 0
            /\ 0 <= result.value[i].confidence.num
            /\ result.value[i].confidence.num
                  <= 100 * result.value[i].confidence.den

\* C3: every confidence returned by either analyzer lies in [0, 100].
C3_ConfidenceWithinBounds ==
    /\ ConfidenceInRange(da_themes)
    /\ ConfidenceInRange(eda_themes)

\* Six hits in a 19-word text: both formulas exceed 100 before the clamp.
C3_Witness ==
    /\ da_themes.called /\ eda_themes.called
    /\ split_len(dream_content) > 10
    /\ \E i \in 1..Len(eda_themes.value) : eda_themes.value[i].score * 20 > 100
    /\ \E i \in 1..Len(da_themes.value) :
          da_themes.value[i].score * 1000 > 100 * split_len(dream_content)

SortedStable(catalog, result, Key(_)) ==
    (result.called /\ ~result.raised) =>
        \A i, j \in 1..Len(result.value) :
            i < j =>
                /\ RatLE(Key(result.value[j]), Key(result.value[i]))
                /\ RatEQ(Key(result.value[i]), Key(result.value[j]))
                      => CatalogIndex(catalog, result.value[i].theme)
                            < CatalogIndex(catalog, result.value[j].theme)

\* C4: the result is in non-increasing order of the ranking key (score in
\* enhanced_dream_analysis, confidence in dream_analyzer) and themes with
\* equal keys are in catalog order.
C4_SortedDescendingStable ==
    /\ SortedStable(DA_dream_themes, da_themes, DA_sort_key)
    /\ SortedStable(EDA_dream_themes, eda_themes, EDA_sort_key)

\* "Cat fly": Animals occurs first in the text, yet the tie is listed in
\* catalog order, Flying before Animals.
C4_Witness ==
    /\ dream_content = Vocabulary[2] \o Vocabulary[4] \o Vocabulary[1]
    /\ da_themes.called /\ eda_themes.called
    /\ Len(eda_themes.value) = 2 /\ Len(da_themes.value) = 2
    /\ eda_themes.value[1].theme = "Flying"
    /\ eda_themes.value[2].theme = "Animals"
    /\ eda_themes.value[1].score = eda_themes.value[2].score
    /\ da_themes.value[1].theme = "Flying"

\* ------------------------------------------------------------------------
\* Properties of the aggregators
\* ------------------------------------------------------------------------

DA_called == ret.op = "DA_analyze_dream_patterns"

EDA_called == ret.op = "EDA_analyze_dream_patterns"

Emotions_called == ret.op = "DA_analyze_emotional_dream_correlation"

IsDict(result) == ~result.raised /\ result.value.py = "dict"

\* The positions, in the collection given to the last call, of the entries
\* with the dream flag set and a dream text that is not empty.
WithDreamText ==
    {i \in 1..Len(ret.sleep_entries) :
        /\ ret.sleep_entries[i].had_dreams
        /\ ret.sleep_entries[i].dream_content # <<>>}

\* Those of them that lie in the window of the last call.
WithDreamTextInWindow ==
    {i \in WithDreamText :
        StrGE(ret.sleep_entries[i].date, strftime(ret.now - DefaultDaysBack))}

DatesAt(positions) == {ret.sleep_entries[i].date : i \in positions}

OnlyQualifyingParticipate(positions) ==
    IsDict(ret.result) =>
        /\ ret.result.value.total_dream_nights = Cardinality(positions)
        /\ DOMAIN ret.result.value.dreams_by_date \subseteq DatesAt(positions)

\* C5: in analyze_dream_patterns only entries with the dream flag set and a
\* non-empty dream text participate: total_dream_nights is their number
\* (inside the time window where one applies) and dreams_by_date has keys
\* only for their dates.
C5_OnlyEntriesWithDreamTextParticipate ==
    /\ DA_called => OnlyQualifyingParticipate(WithDreamText)
    /\ EDA_called => OnlyQualifyingParticipate(WithDreamTextInWindow)

\* The number of qualifying entries in which dream_analyzer detects a theme.
NightsWithTheme(theme) ==
    Cardinality({i \in WithDreamText :
        \E k \in 1..Len(DA_entry_themes(ret.sleep_entries[i])) :
            DA_entry_themes(ret.sleep_entries[i])[k] = theme})

DA_ThemeNameSet == {DA_dream_themes[k].theme : k \in 1..Len(DA_dream_themes)}

TopThemes(i) == Take(DA_entry_themes(ret.sleep_entries[i]), 2)

Associations(emotion, themes) ==
    Cardinality(UNION {
        { <<i, j, k>> :
            j \in {j \in 1..Len(ret.sleep_entries[i].dream_emotions) :
                      strip(lower(ret.sleep_entries[i].dream_emotions[j]))
                         = emotion},
            k \in {k \in 1..Len(TopThemes(i)) : TopThemes(i)[k] \in themes} }
        : i \in WithDreamText })

CleanedEmotions ==
    UNION { {strip(lower(ret.sleep_entries[i].dream_emotions[j])) :
                j \in 1..Len(ret.sleep_entries[i].dream_emotions)}
            : i \in WithDreamText }

Reported(emotion) ==
    {i \in 1..Len(ret.result.value) : ret.result.value[i].emotion = emotion}

\* C7: analyze_emotional_dream_correlation reports an emotion (lower-cased
\* and trimmed) exactly when it has at least 2 theme associations in total;
\* most_common_theme is then a theme of maximal association count, frequency
\* is that count and total_occurrences the total, so
\* 1 <= frequency <= total_occurrences.
C7_EmotionReportedIffTwoAssociations ==
    Emotions_called =>
        /\ ~ret.result.raised
        /\ \A i \in 1..Len(ret.result.value) :
              ret.result.value[i].emotion \in CleanedEmotions
        /\ \A emotion \in CleanedEmotions :
              LET total == Associations(emotion, DA_ThemeNameSet)
              IN  /\ (Reported(emotion) # {}) <=> (total >= 2)
                  /\ Cardinality(Reported(emotion)) <= 1
                  /\ \A i \in Reported(emotion) :
                        LET item == ret.result.value[i]
                        IN  /\ item.total_occurrences = total
                            /\ item.frequency
                                  = Associations(emotion,
                                                 {item.most_common_theme})
                            /\ \A theme \in DA_ThemeNameSet :
                                  Associations(emotion, {theme})
                                     <= item.frequency
                            /\ 1 <= item.frequency
                            /\ item.frequency <= item.total_occurrences

\* The flying dream and the second dream of 2024-01-15: "peaceful" and
\* " Peaceful" are one emotion with Flying twice and Animals once, while
\* "happy" has a single association and is not reported.
C7_Witness ==
    /\ Emotions_called
    /\ ret.sleep_entries = <<SampleSleepEntries[1], SampleSleepEntries[5]>>
    /\ \E i \in Reported(Peaceful) :
          /\ ret.result.value[i].most_common_theme = "Flying"
          /\ ret.result.value[i].frequency = 2
          /\ ret.result.value[i].total_occurrences = 3
    /\ Reported(Happy) = {}

\* The two entries of the example scenario: 2024-01-15 (flying) and
\* 2024-01-17 (swimming).
Scenario == <<SampleSleepEntries[1], SampleSleepEntries[2]>>

ScenarioPatterns ==
    (DA_called /\ ret.sleep_entries = Scenario) =>
        /\ IsDict(ret.result)
        /\ ret.result.value.total_dream_nights = 2
        /\ ret.result.value.dreams_by_date[Date15] = <<"Flying">>
        /\ ret.result.value.dreams_by_date[Date17] = <<"Water">>

\* C8 as claimed: in the scenario the matcher detects Flying and Water, the
\* aggregate reports total_dream_nights = 2, and "peaceful" is not reported
\* with a most common theme.
C8_PeacefulNotReported ==
    /\ ScenarioPatterns
    /\ (Emotions_called /\ ret.sleep_entries = Scenario)
          => Reported(Peaceful) = {}

\* C8 as amended: "peaceful", with two associations in total, is reported
\* with the first of its two themes, Flying, frequency 1 and
\* total_occurrences 2.
C8_PeacefulReportedWithFrequencyOne ==
    /\ ScenarioPatterns
    /\ (Emotions_called /\ ret.sleep_entries = Scenario)
          => /\ ~ret.result.raised
             /\ \E i \in 1..Len(ret.result.value) :
                   ret.result.value[i]
                      = [emotion           |-> Peaceful,
                         most_common_theme |-> "Flying",
                         frequency         |-> 1,
                         total_occurrences |-> 2]
             /\ Cardinality(Reported(Peaceful)) = 1

C8_Witness ==
    /\ Emotions_called
    /\ ret.sleep_entries = Scenario
    /\ Associations(Peaceful, {"Flying"}) = 1
    /\ Associations(Peaceful, {"Water"}) = 1
    /\ Reported(Peaceful) # {}

IsEmptyAggregate(result) ==
    ~result.raised /\ result.value \in {NoneResult, EmptyDict}

\* C9: when no entry qualifies (empty collection, no entry with the dream
\* flag and a non-empty text, or none inside the window)
\* analyze_dream_patterns returns None or {} and does not raise.
C9_EmptyAggregateWhenNoEntryQualifies ==
    /\ (DA_called /\ WithDreamText = {}) => IsEmptyAggregate(ret.result)
    /\ (EDA_called /\ WithDreamTextInWindow = {})
          => IsEmptyAggregate(ret.result)

SameCollections ==
    /\ ret'.op = ret.op
    /\ ret'.sleep_entries = ret.sleep_entries
    /\ ret'.performance_entries = ret.performance_entries

Aggregations ==
    {"DA_analyze_dream_patterns", "EDA_analyze_dream_patterns",
     "DA_analyze_emotional_dream_correlation", "analyze_correlations"}

\* An aggregation call leaves the collections and their entries as they are.
CollectionsUntouched ==
    (ret' # ret /\ ret'.op \in Aggregations) =>
        /\ sleep_entries' = sleep_entries
        /\ performance_entries' = performance_entries

StrictIncreases(v) == Cardinality({i \in 1..(Len(v) - 1) : v[i + 1] > v[i]})

StrictDecreases(v) == Cardinality({i \in 1..(Len(v) - 1) : v[i + 1] < v[i]})

Trend_called == ret.op = "calculate_trend" /\ IsIntList(ret.argument)

\* C11: calculate_trend returns "Insufficient data" for fewer than 2 values;
\* otherwise "Improving" exactly when the strict increases between
\* consecutive values outnumber the strict decreases, "Declining" exactly
\* when the decreases outnumber the increases, and "Stable" exactly when the
\* two counts are equal; [5,6,7,8] is Improving, [8,7,6,5] Declining and
\* [5,5,5] Stable.
C11_TrendFollowsStrictChanges ==
    Trend_called =>
        LET v     == ret.argument.items
            trend == ret.result.value
            ups   == StrictIncreases(v)
            downs == StrictDecreases(v)
        IN  /\ ~ret.result.raised
            /\ (trend = "Insufficient data") <=> (Len(v) < 2)
            /\ Len(v) >= 2 =>
                  /\ (trend = "Improving") <=> (ups > downs)
                  /\ (trend = "Declining") <=> (downs > ups)
                  /\ (trend = "Stable") <=> (ups = downs)
            /\ v = <<5, 6, 7, 8>> => trend = "Improving"
            /\ v = <<8, 7, 6, 5>> => trend = "Declining"
            /\ v = <<5, 5, 5>> => trend = "Stable"

\* A list whose last value is below its first and which rises more often
\* than it falls.
C11_Witness ==
    /\ Trend_called
    /\ ret.argument.items = <<5, 6, 7, 1>>
    /\ ret.result.value = "Improving"

Summary_called == ret.op = "get_statistics_summary" /\ IsIntList(ret.argument)

\* C12: get_statistics_summary of an empty sequence returns the summary
\* count 0, min 0, max 0, average 0, trend "No data" and does not raise; of a
\* non-empty sequence it returns count = its length, min and max its
\* extremes, and average = its mean rounded to 2 decimals, with
\* min <= average <= max.
C12_SummaryOfValues ==
    Summary_called =>
        LET v       == ret.argument.items
            summary == ret.result.value
            total   == sum(v)
        IN  /\ ~ret.result.raised
            /\ v = <<>> =>
                  summary = [count |-> 0, min |-> 0, max |-> 0,
                             average |-> 0, trend |-> "No data"]
            /\ v # <<>> =>
                  /\ summary.count = Len(v)
                  /\ \E i \in 1..Len(v) : v[i] = summary.min
                  /\ \A i \in 1..Len(v) : summary.min <= v[i]
                  /\ \E i \in 1..Len(v) : v[i] = summary.max
                  /\ \A i \in 1..Len(v) : v[i] <= summary.max
                  \* the nearest hundredth to total / Len(v)
                  /\ 2 * (summary.average * Len(v) - 100 * total) <= Len(v)
                  /\ 2 * (100 * total - summary.average * Len(v)) <= Len(v)
                  /\ 100 * summary.min <= summary.average
                  /\ summary.average <= 100 * summary.max

\* A list whose mean, 17/3, is not a multiple of a hundredth.
C12_Witness ==
    /\ Summary_called
    /\ ret.argument.items = <<6, 5, 6>>
    /\ ret.result.value.average = 567
    /\ ret.result.value.min = 5
\* ------------------------------------------------------------------------
\* Properties of the correlation of sleep and performance
\* ------------------------------------------------------------------------

Correlations_called == ret.op = "analyze_correlations"

DatesOf(entries) == {entries[i].date : i \in 1..Len(entries)}

\* The dates that occur in both collections of the call.
MatchedDates == DatesOf(ret.sleep_entries) \cap DatesOf(ret.performance_entries)

\* The entry that counts for a date: the last one recorded for it.
LastFor(entries, date) ==
    entries[CHOOSE i \in 1..Len(entries) :
               /\ entries[i].date = date
               /\ \A j \in (i + 1)..Len(entries) : entries[j].date # date]

InsufficientMessages ==
    { "Insufficient data for correlation analysis",
      "Need at least 3 matching dates for correlation analysis" }

\* The messages of the returned list, and the average reported under one.
ReportedKinds ==
    {ret.result.value[i].kind : i \in 1..Len(ret.result.value)}

ReportedAverages(kind) ==
    {ret.result.value[i].average :
        i \in {j \in 1..Len(ret.result.value) :
                  ret.result.value[j].kind = kind}}

\* C13: when fewer than 3 distinct dates occur in both collections (either
\* collection being empty included), analyze_correlations returns only an
\* explicit insufficient-data message and no group average.
C13_InsufficientBelowThreeMatchedDates ==
    (Correlations_called /\ Cardinality(MatchedDates) < 3) =>
        /\ ~ret.result.raised
        /\ Len(ret.result.value) = 1
        /\ ret.result.value[1].kind \in InsufficientMessages
        /\ DOMAIN ret.result.value[1] = {"kind"}

\* Two dates match: both collections hold entries, yet nothing is averaged.
C13_Witness ==
    /\ Correlations_called
    /\ Cardinality(MatchedDates) = 2
    /\ ret.result.value =
          << [kind |->
                "Need at least 3 matching dates for correlation analysis"] >>

\* The four groups of the matched dates.
GoodDates ==
    {d \in MatchedDates : LastFor(ret.sleep_entries, d).sleep_quality >= 7}

PoorDates ==
    {d \in MatchedDates : LastFor(ret.sleep_entries, d).sleep_quality <= 4}

DreamDates == {d \in MatchedDates : LastFor(ret.sleep_entries, d).had_dreams}

NoDreamDates ==
    {d \in MatchedDates : ~LastFor(ret.sleep_entries, d).had_dreams}

\* sum of the overall scores, in tenths, of the dates of a group
RECURSIVE TotalScore(_)
TotalScore(dates) ==
    IF dates = {} THEN 0
    ELSE LET d == CHOOSE x \in dates : TRUE
         IN  LastFor(ret.performance_entries, d).overall_score
             + TotalScore(dates \ {d})

\* The list holds, under kind, exactly one average, and it is the tenth
\* nearest to the mean of the overall scores of the dates.
ReportsMean(kind, dates) ==
    /\ Cardinality({i \in 1..Len(ret.result.value) :
                       ret.result.value[i].kind = kind}) = 1
    /\ \A average \in ReportedAverages(kind) :
          /\ 2 * (average * Cardinality(dates) - TotalScore(dates))
                <= Cardinality(dates)
          /\ 2 * (TotalScore(dates) - average * Cardinality(dates))
                <= Cardinality(dates)

GoodKind == "Average performance on good sleep days (7+)"

PoorKind == "Average performance on poor sleep days (<=4)"

DreamKind == "Average performance with dreams"

NoDreamKind == "Average performance without dreams"

\* The quality groups are reported when non-empty, a quality of 5 or 6
\* belongs to neither, and every matched date is in exactly one dream group.
QualityGroupsReported ==
    /\ ~ret.result.raised
    /\ GoodDates # {} => ReportsMean(GoodKind, GoodDates)
    /\ GoodDates = {} => GoodKind \notin ReportedKinds
    /\ PoorDates # {} => ReportsMean(PoorKind, PoorDates)
    /\ PoorDates = {} => PoorKind \notin ReportedKinds
    /\ \A d \in MatchedDates :
          LastFor(ret.sleep_entries, d).sleep_quality \in {5, 6}
              => d \notin GoodDates \cup PoorDates
    /\ DreamDates \cup NoDreamDates = MatchedDates
    /\ DreamDates \cap NoDreamDates = {}

ThreeMatched == Correlations_called /\ Cardinality(MatchedDates) >= 3

\* C14 as stated: with at least 3 matched dates, each of the four groups that
\* is non-empty (quality >= 7; quality <= 4; dreams present; dreams absent)
\* has the mean of the overall scores of its matched dates reported, rounded
\* to one decimal; quality 5 or 6 is in neither quality group and every
\* matched date is in exactly one dream group.
C14_EveryNonEmptyGroupReported ==
    ThreeMatched =>
        /\ QualityGroupsReported
        /\ DreamDates # {} => ReportsMean(DreamKind, DreamDates)
        /\ NoDreamDates # {} => ReportsMean(NoDreamKind, NoDreamDates)

\* C14, amended: the two dream groups are reported when both are non-empty,
\* and neither is reported otherwise.
C14_DreamGroupsReportedTogether ==
    ThreeMatched =>
        /\ QualityGroupsReported
        /\ (DreamDates # {} /\ NoDreamDates # {}) =>
              /\ ReportsMean(DreamKind, DreamDates)
              /\ ReportsMean(NoDreamKind, NoDreamDates)
        /\ (DreamDates = {} \/ NoDreamDates = {}) =>
              /\ DreamKind \notin ReportedKinds
              /\ NoDreamKind \notin ReportedKinds

\* Three matched dates with a good night, a poor night and both dream groups.
C14_Witness ==
    /\ ThreeMatched
    /\ GoodDates # {} /\ PoorDates # {}
    /\ DreamDates # {} /\ NoDreamDates # {}
    /\ Len(ret.result.value) = 4
\* ------------------------------------------------------------------------
\* Properties of the overall score
\* ------------------------------------------------------------------------

\* The overall score, in tenths, of the entry with the given ratings.
ScoreOf(productivity, mood, energy_level, stress_level) ==
    PerformanceEntry(Date15, productivity, mood,
                     energy_level, stress_level).overall_score

\* C15: for ratings in 1..10 the overall score of a performance entry is
\* (productivity + mood + energy + (11 - stress)) / 4 rounded to one decimal,
\* lies in [1, 10], does not decrease when productivity, mood or energy
\* rises, and does not increase when stress rises.
C15_OverallScoreFormula ==
    \A i \in 1..Len(performance_entries) :
        LET entry == performance_entries[i]
            p     == entry.productivity
            m     == entry.mood
            e     == entry.energy_level
            s     == entry.stress_level
            score == entry.overall_score
            total == p + m + e + (11 - s)
        IN  (p \in 1..10 /\ m \in 1..10 /\ e \in 1..10 /\ s \in 1..10) =>
               \* the tenth nearest to total / 4
               /\ 2 * score - 5 * total <= 1
               /\ 5 * total - 2 * score <= 1
               /\ 10 <= score /\ score <= 100
               /\ \A higher \in 1..10 :
                     /\ higher >= p => ScoreOf(higher, m, e, s) >= score
                     /\ higher >= m => ScoreOf(p, higher, e, s) >= score
                     /\ higher >= e => ScoreOf(p, m, higher, s) >= score
                     /\ higher >= s => ScoreOf(p, m, e, higher) <= score

\* Ratings whose mean, 23 / 4 = 5.75, lies between two tenths.
C15_Witness ==
    /\ Len(performance_entries) = 1
    /\ performance_entries[1].productivity = 6
    /\ performance_entries[1].mood = 6
    /\ performance_entries[1].energy_level = 5
    /\ performance_entries[1].stress_level = 5
    /\ performance_entries[1].overall_score = 58
\* ------------------------------------------------------------------------
\* Properties of the sleep duration
\* ------------------------------------------------------------------------

\* C16: for every pair of bedtime and wake-time strings, fields outside 0-23
\* and 0-59 included, the sleep duration is non-negative: 0 when either
\* string fails to parse, otherwise the difference wake minus bed in minutes,
\* wrapped by 24 hours when the wake time is earlier than the bedtime, in
\* hours rounded to one decimal.
C16_SleepDurationNonNegative ==
    \A i \in 1..Len(sleep_entries) :
        LET entry == sleep_entries[i]
            bed   == clock_minutes(entry.bedtime)
            wake  == clock_minutes(entry.wake_time)
            duration_minutes ==
                IF wake.value < bed.value
                THEN wake.value + 1440 - bed.value
                ELSE wake.value - bed.value
        IN  /\ entry.sleep_duration >= 0
            /\ (bed.raised \/ wake.raised) => entry.sleep_duration = 0
            /\ ~(bed.raised \/ wake.raised) =>
                  \* the tenth of an hour nearest to duration_minutes / 60
                  /\ 6 * entry.sleep_duration - duration_minutes <= 3
                  /\ duration_minutes - 6 * entry.sleep_duration <= 3
\* ------------------------------------------------------------------------
\* Properties of the collections and their stored forms
\* ------------------------------------------------------------------------

NoTwoWithSameDate(entries) ==
    \A i \in 1..Len(entries), j \in 1..Len(entries) :
        i # j => entries[i].date # entries[j].date

\* C17: after any sequence of record-entry, Excel-load (merge or replace) and
\* switch-source operations neither collection holds two entries with the
\* same date; recording an entry for a date that is present keeps the new
\* entry (last write wins).
C17_DatesUnique ==
    /\ NoTwoWithSameDate(sleep_entries)
    /\ NoTwoWithSameDate(performance_entries)

\* C18: every sleep entry in memory has a quality in 1..10 and every
\* performance entry has four ratings in 1..10, whichever input path created
\* it (terminal, text-file load, Excel load, rows with empty cells included).
C18_RatingsInRange ==
    /\ \A i \in 1..Len(sleep_entries) :
          sleep_entries[i].sleep_quality \in Ratings
    /\ \A i \in 1..Len(performance_entries) :
          /\ performance_entries[i].productivity \in Ratings
          /\ performance_entries[i].mood \in Ratings
          /\ performance_entries[i].energy_level \in Ratings
          /\ performance_entries[i].stress_level \in Ratings

\* The later collection holds the earlier one as its beginning.
AppendedTo(earlier, later) ==
    /\ Len(later) >= Len(earlier)
    /\ SubSeq(later, 1, Len(earlier)) = earlier

\* C19: every operation that changes a collection either appends entries
\* after the existing ones, which stay as they are and in their order, or
\* replaces the whole collection by one loaded from a file; none removes or
\* edits a single existing entry.
C19_AppendOrReplaceWhole ==
    [][ /\ \/ AppendedTo(sleep_entries, sleep_entries')
           \/ sleep_entries' = load_sleep_data_from_excel(sleep_excel_file)
           \/ sleep_entries' = load_sleep_data(sleep_file)
        /\ \/ AppendedTo(performance_entries, performance_entries')
           \/ performance_entries' =
                 load_performance_data_from_excel(performance_excel_file)
           \/ performance_entries' = load_performance_data(performance_file)
      ]_vars

\* The entry read from the text file, followed by the row of the workbook
\* whose date was not there yet: a merge.
C19_Witness ==
    /\ data_source = "excel"
    /\ Len(sleep_entries) = 2
    /\ sleep_entries[1].sleep_quality = 11
    /\ sleep_entries[2].date = Date17

\* ------------------------------------------------------------------------
\* Arguments of a wrong type
\* ------------------------------------------------------------------------

\* C20: an argument of the wrong type is rejected with a raised error:
\* add_sleep_entry and add_performance_entry raise TypeError and leave the
\* collections unchanged, and get_statistics_summary and safe_average raise
\* for an argument that is not a sequence or not numeric instead of
\* returning a summary or a default value. (The helpers' part.)
C20_HelpersRaiseOnWrongType ==
    (ret.op \in {"get_statistics_summary", "safe_average"}
        /\ ~IsIntList(ret.argument))
    => ret.result.raised
\* ------------------------------------------------------------------------
\* The two theme analyzers side by side (specification SpecThemes)
\* ------------------------------------------------------------------------

\* C21: one confidence formula is applied consistently: for every dream text
\* a theme that has the same score in the result of dream_analyzer and in the
\* result of enhanced_dream_analysis has the same confidence in both.
C21_SameScoreSameConfidence ==
    (/\ da_themes.called /\ ~da_themes.raised
     /\ eda_themes.called /\ ~eda_themes.raised)
    => \A i \in 1..Len(da_themes.value), j \in 1..Len(eda_themes.value) :
          (/\ da_themes.value[i].theme = eda_themes.value[j].theme
           /\ da_themes.value[i].score = eda_themes.value[j].score)
          => RatEQ(da_themes.value[i].confidence,
                   eda_themes.value[j].confidence)

\* ------------------------------------------------------------------------
\* Properties of the dream statistics (specification SpecJournal)
\* ------------------------------------------------------------------------

Frequency_called == ret.op = "get_dream_frequency"

\* The positions, in the collection given to the last call, of the entries
\* with the dream flag set.
WithDreamFlag ==
    {i \in 1..Len(ret.sleep_entries) : ret.sleep_entries[i].had_dreams}

\* value is the tenth nearest to the quotient part / whole, in per cent.
NearestTenthOfPercent(value, part, whole) ==
    /\ 2 * (value * whole - 1000 * part) <= whole
    /\ 2 * (1000 * part - value * whole) <= whole

\* C22: the dream frequency counts every entry with the dream flag set, also
\* one without a dream text, over all entries and is 0 for an empty
\* collection; total_dream_nights counts only the flagged entries that have
\* a text; so total_dream_nights <= flagged entries <= entries, and the
\* frequency lies in [0, 100].
C22_DreamStatisticsOrdered ==
    /\ Frequency_called =>
          /\ ~ret.result.raised
          /\ ret.sleep_entries = <<>> => ret.result.value = 0
          /\ ret.sleep_entries # <<>> =>
                NearestTenthOfPercent(ret.result.value,
                                      Cardinality(WithDreamFlag),
                                      Len(ret.sleep_entries))
          /\ ret.result.value \in 0..1000
    /\ (DA_called /\ IsDict(ret.result)) =>
          /\ ret.result.value.total_dream_nights = Cardinality(WithDreamText)
          /\ ret.result.value.total_dream_nights <= Cardinality(WithDreamFlag)
          /\ Cardinality(WithDreamFlag) <= Len(ret.sleep_entries)
    /\ (DA_called /\ ~IsDict(ret.result)) => WithDreamText = {}

\* Two of three nights have the dream flag, one of them without a text.
C22_Witness ==
    /\ Frequency_called
    /\ Len(ret.sleep_entries) = 3
    /\ ret.result.value = 667
    /\ \E i \in WithDreamFlag : ret.sleep_entries[i].dream_content = <<>>
    /\ \E i \in WithDreamFlag : ret.sleep_entries[i].dream_content # <<>>

\* The collection with every emotion label written in lower case.
LowerCaseLabels(entries) ==
    [i \in 1..Len(entries) |->
        [entries[i] EXCEPT !.dream_emotions =
            [k \in 1..Len(entries[i].dream_emotions) |->
                lower(entries[i].dream_emotions[k])]]]

\* The emotion statistics of a returned dict.
EmotionStatistics(result) ==
    IF "most_common_emotions" \in DOMAIN result.value
    THEN <<result.value.most_common_emotions, result.value.unique_emotions>>
    ELSE <<>>

\* C23: emotion labels are matched without regard to case in every emotion
\* statistic: the most common emotions and the number of unique emotions of
\* a collection are those of the collection with its labels in lower case.
C23_EmotionsCaseInsensitive ==
    /\ ret.op = "get_most_common_dream_emotions" =>
          ret.result.value
             = get_most_common_dream_emotions(LowerCaseLabels(ret.sleep_entries))
    /\ ret.op = "DJ_get_dream_statistics" =>
          EmotionStatistics(ret.result)
             = EmotionStatistics(
                  DJ_get_dream_statistics(LowerCaseLabels(ret.sleep_entries)))
    /\ ret.op = "EDA_get_dream_statistics" =>
          EmotionStatistics(ret.result)
             = EmotionStatistics(
                  EDA_get_dream_statistics(LowerCaseLabels(ret.sleep_entries)))

\* ------------------------------------------------------------------------
\* The most common themes (specification SpecCommon)
\* ------------------------------------------------------------------------

\* The themes of the entries given to the last call, as the aggregator that
\* was called detects them.
ThemesAt(i) ==
    IF ~ret.sleep_entries[i].had_dreams THEN <<>>
    ELSE IF DA_called THEN DA_entry_themes(ret.sleep_entries[i])
    ELSE EDA_entry_themes(ret.sleep_entries[i])

Detected(i, theme) == \E k \in 1..Len(ThemesAt(i)) : ThemesAt(i)[k] = theme

\* The number of entries in which the theme was detected.
EntriesWith(theme) ==
    Cardinality({i \in 1..Len(ret.sleep_entries) : Detected(i, theme)})

AllDetected ==
    UNION { {ThemesAt(i)[k] : k \in 1..Len(ThemesAt(i))} :
            i \in 1..Len(ret.sleep_entries) }

\* a is met before b in a scan of the entries, each entry's themes being
\* scanned in the order in which the matcher returns them.
MetBefore(a, b) ==
    LET first(t) == CHOOSE i \in 1..Len(ret.sleep_entries) :
                        /\ Detected(i, t)
                        /\ \A j \in 1..(i - 1) : ~Detected(j, t)
        place(t) == CHOOSE k \in 1..Len(ThemesAt(first(t))) :
                        ThemesAt(first(t))[k] = t
    IN  \/ first(a) < first(b)
        \/ first(a) = first(b) /\ place(a) < place(b)

\* C24: most_common_themes lists at most 5 (theme, count) pairs in
\* non-increasing order of count, themes of equal count in the order in
\* which they are first met in the scan of the entries; a count is the
\* number of participating entries in which the theme was detected, so none
\* exceeds total_dream_nights.
C24_MostCommonThemes ==
    ((DA_called \/ EDA_called) /\ IsDict(ret.result)) =>
        LET common == ret.result.value.most_common_themes
            listed == {common[i][1] : i \in 1..Len(common)}
        IN  /\ Len(common) <= 5
            /\ Len(common) = Min(5, Cardinality(AllDetected))
            /\ listed \subseteq AllDetected
            /\ \A i, j \in 1..Len(common) :
                  /\ common[i][1] = common[j][1] => i = j
                  /\ i < j => common[i][2] >= common[j][2]
                  /\ (i < j /\ common[i][2] = common[j][2])
                        => MetBefore(common[i][1], common[j][1])
            /\ \A i \in 1..Len(common) :
                  /\ common[i][2] = EntriesWith(common[i][1])
                  /\ common[i][2] <= ret.result.value.total_dream_nights
            /\ \A theme \in AllDetected \ listed :
                  \A i \in 1..Len(common) :
                      \/ common[i][2] > EntriesWith(theme)
                      \/ /\ common[i][2] = EntriesWith(theme)
                         /\ MetBefore(common[i][1], theme)

\* The dream with six themes and the dream about money and death: Death is
\* counted twice and comes first, four of the themes of one entry follow in
\* the order of the matcher, Animals and Money are cut off.
C24_Witness ==
    /\ DA_called
    /\ ret.sleep_entries = <<ThemeNights[1], ThemeNights[2]>>
    /\ ret.result.value.most_common_themes
          = << <<"Death", 2>>, <<"Flying", 1>>, <<"Falling", 1>>,
               <<"Chase", 1>>, <<"Water", 1>> >>

\* ------------------------------------------------------------------------
\* The window and the calendar (specification SpecWindow)
\* ------------------------------------------------------------------------

\* The day of the model's clock that a typed date year-month-day names:
\* 2023-12-01 is day 1.
CalendarDay(date) ==
    LET fields == split(date, "-")
        year   == int(fields[1]).value
        month  == int(fields[2]).value
        day    == int(fields[3]).value
    IN  IF year = 2023 THEN day
        ELSE IF month = 1 THEN 31 + day
        ELSE 62 + day

\* The flagged entries of the last call whose day is on or after the cutoff
\* day, today minus days_back.
InCalendarWindow ==
    {i \in 1..Len(ret.sleep_entries) :
        /\ ret.sleep_entries[i].had_dreams
        /\ CalendarDay(ret.sleep_entries[i].date) >= ret.now - ret.days_back}

\* C25: for every date the program accepts and every N, the window of
\* analyze_dream_patterns(entries, days_back = N) keeps an entry with the
\* dream flag iff its calendar date is on or after today minus N days.
C25_WindowIsCalendarWindow ==
    EDA_called =>
        /\ IsDict(ret.result) =>
              /\ ret.result.value.total_dream_nights
                    = Cardinality(InCalendarWindow)
              /\ DOMAIN ret.result.value.dreams_by_date
                    = {ret.sleep_entries[i].date : i \in InCalendarWindow}
        /\ ~IsDict(ret.result) => InCalendarWindow = {}

\* ------------------------------------------------------------------------
\* The recommendations of the report
\* ------------------------------------------------------------------------

Recommendations_called == ret.op = "generate_recommendations"

StressRecommended ==
    \E k \in 1..Len(ret.result.value) :
        ret.result.value[k] = "High stress levels detected - consider stress management techniques"

\* C26: the stress-management recommendation is emitted if and only if there
\* is at least one performance entry and the average of the stress ratings,
\* the sum of the ratings divided by their number, is greater than 7; and the
\* list of recommendations is never empty.
C26_StressRecommendation ==
    Recommendations_called =>
        /\ StressRecommended <=>
              /\ ret.performance_entries # <<>>
              /\ total_of(ret.performance_entries, "stress_level")
                     > 7 * Len(ret.performance_entries)
        /\ ret.result.value # <<>>

\* ------------------------------------------------------------------------
\* The distributions of the sleep-analysis section
\* ------------------------------------------------------------------------

SleepAnalysis_called ==
    ret.op = "generate_sleep_analysis" /\ ret.sleep_entries # <<>>

\* The fixed quality ranges, by their labels.
QualityRanges ==
    [label \in { <<"1","-","2">>, <<"3","-","4">>, <<"5","-","6">>,
                 <<"7","-","8">>, <<"9","-","1","0">> } |->
        IF label = <<"1","-","2">> THEN 1..2
        ELSE IF label = <<"3","-","4">> THEN 3..4
        ELSE IF label = <<"5","-","6">> THEN 5..6
        ELSE IF label = <<"7","-","8">> THEN 7..8
        ELSE 9..10]

\* The durations of a category, in tenths of an hour: the lower bound counts,
\* the upper one does not.
InDurationCategory(duration, category) ==
    IF category = "<6h" THEN duration < 60
    ELSE IF category = "6-7h" THEN 60 <= duration /\ duration < 70
    ELSE IF category = "7-8h" THEN 70 <= duration /\ duration < 80
    ELSE IF category = "8-9h" THEN 80 <= duration /\ duration < 90
    ELSE 90 <= duration

\* C27: in the sleep-analysis section every entry is counted in exactly one
\* duration bucket among <6h, 6-7h, 7-8h, 8-9h and >9h (lower bound
\* inclusive, upper bound exclusive, nine hours and more in >9h) and in
\* exactly one quality bucket of the fixed ranges 1-2, 3-4, 5-6, 7-8 and
\* 9-10; the counts of each distribution sum to the number of entries.
C27_DistributionsPartition ==
    SleepAnalysis_called =>
        LET nights  == ret.sleep_entries
            section == ret.result.value
        IN  /\ DOMAIN section.duration_categories = DurationCategories
            /\ \A category \in DurationCategories :
                  section.duration_categories[category] =
                      Cardinality({i \in 1..Len(nights) :
                          InDurationCategory(nights[i].sleep_duration,
                                             category)})
            /\ \A i \in 1..Len(nights) :
                  Cardinality({category \in DurationCategories :
                      InDurationCategory(nights[i].sleep_duration,
                                         category)}) = 1
            /\ \A k \in 1..Len(section.quality_distribution) :
                  /\ section.quality_distribution[k][1] \in DOMAIN QualityRanges
                  /\ section.quality_distribution[k][2] =
                        Cardinality({i \in 1..Len(nights) :
                            nights[i].sleep_quality \in
                                QualityRanges[section.quality_distribution[k][1]]})
                  /\ \A j \in 1..Len(section.quality_distribution) :
                        section.quality_distribution[j][1]
                            = section.quality_distribution[k][1] => j = k
            /\ sum([k \in 1..Len(section.quality_distribution) |->
                       section.quality_distribution[k][2]]) = Len(nights)
            /\ sum([k \in 1..5 |->
                       section.duration_categories[
                           <<"<6h", "6-7h", "7-8h", "8-9h", ">9h">>[k]]])
                  = Len(nights)

\* ------------------------------------------------------------------------
\* The sheet of the nights under record, switch and exit
\* ------------------------------------------------------------------------

\* The sheet has at most one row for a date.
OneRowPerDate(rows) ==
    \A i, j \in 1..Len(rows) :
        rows[i].cells.Date = rows[j].cells.Date => i = j

\* The entries of a sheet for the dates other than one.
EntriesOfOtherDates(rows, date) ==
    LET stored == load_sleep_data_from_excel(rows)
    IN  {stored[i] : i \in {k \in 1..Len(stored) : stored[k].date # date}}

\* A step that records a night in Excel mode.
RecordsInExcelMode ==
    /\ data_source = "excel"
    /\ ret'.op = "add_sleep_entry"
    /\ Len(sleep_entries') = Len(sleep_entries) + 1

\* C28: starting from a sheet of nights with unique dates, the sheet holds at
\* most one row for a date after every record in Excel mode, every switch of
\* the source with a save and the save on exit; a record puts the new entry
\* in the place of the stored one of its date, keeps the entries of the other
\* dates, and leaves the rows in ascending order of the dates.
C28_OneRowPerDate ==
    [][ /\ OneRowPerDate(sleep_excel_file')
        /\ RecordsInExcelMode =>
              LET sleep_entry == sleep_entries'[Len(sleep_entries')]
              IN  /\ \E i \in 1..Len(sleep_excel_file') :
                        load_sleep_data_from_excel(
                            << sleep_excel_file'[i] >>) = << sleep_entry >>
                  /\ EntriesOfOtherDates(sleep_excel_file',
                                         sleep_entry.date)
                        = EntriesOfOtherDates(sleep_excel_file,
                                              sleep_entry.date)
                  /\ \A i \in 1..(Len(sleep_excel_file') - 1) :
                        /\ StrGE(sleep_excel_file'[i + 1].cells.Date,
                                 sleep_excel_file'[i].cells.Date)
                        /\ sleep_excel_file'[i + 1].cells.Date
                              # sleep_excel_file'[i].cells.Date ]_vars

\* ------------------------------------------------------------------------
\* The order of the themes of dream_analyzer
\* ------------------------------------------------------------------------

\* C29: in the result of dream_analyzer's analyze_dream_themes a theme with
\* a strictly larger score never comes after a theme with a smaller score,
\* whatever the length of the text; hence the first theme of the result has
\* the maximal score.
C29_LargerScoreFirst ==
    (da_themes.called /\ ~da_themes.raised) =>
        /\ \A i, j \in 1..Len(da_themes.value) :
              i < j => da_themes.value[j].score <= da_themes.value[i].score
        /\ \A j \in 1..Len(da_themes.value) :
              da_themes.value[j].score <= da_themes.value[1].score

\* ------------------------------------------------------------------------
\* The text file of the nights read back
\* ------------------------------------------------------------------------

\* C30: text persistence round-trips: for every collection of nights,
\* whatever characters their texts hold, load_sleep_data of what
\* save_sleep_data wrote returns a collection of the same length with the
\* same entries in the same order.
C30_TextRoundTrip ==
    (/\ ret.op = "load_sleep_data"
     /\ sleep_file = save_sleep_data(ret.sleep_entries))
    => /\ Len(ret.result.value) = Len(ret.sleep_entries)
       /\ ret.result.value = ret.sleep_entries

====
